---- MODULE Spec2Model ----
(***************************************************************************)
(* Verification model of lukaszraczylo/interruption-tracker: the session   *)
(* and interruption data model, the duration accounting, the interruption  *)
(* tag statistics, the productivity score, the session commands of the     *)
(* terminal UI and the storage operations that rewrite a day.              *)
(*                                                                         *)
(* Time is counted in whole minutes.  A missing *TimeEntry (nil) is the    *)
(* record NoEntry.  Floating point values are kept as exact fractions.     *)
(***************************************************************************)
EXTENDS Integers, Sequences, FiniteSets, TLC

(***************************************************************************)
(* Bounds of the model.                                                    *)
(***************************************************************************)
MaxT == 4           \* largest timestamp of a drawn accounting input
MaxSecond == 3      \* a second sub-session or second session is drawn over this many minutes
MaxScoreSessions == 2       \* largest session count of a drawn DetailedStats
MaxScoreInterruptions == 12 \* largest interruption count of a drawn DetailedStats
MaxTime == 7        \* the clock stops creating entries at this minute
MaxDay == 2         \* calendar days the store covers
MaxSessions == 3    \* sessions a day may hold before start is no longer tried

(***************************************************************************)
(* models/timeentry.go: entry types, tags, entries.                        *)
(***************************************************************************)
EntryTypeStart == "START"
EntryTypeEnd == "END"
EntryTypeInterruption == "INTERRUPTION"
EntryTypeReturn == "RETURN"

TagCall == "call"
TagMeeting == "meeting"
TagSpouse == "spouse"
TagOther == "other"
TagUnset == ""
TagCustom == "gym"

GetInterruptionTags == <<TagCall, TagMeeting, TagSpouse, TagOther>>

KnownTags == {GetInterruptionTags[i] : i \in 1..Len(GetInterruptionTags)}

RecoveryMinutes == 10

\* the ID of an entry is the clock reading it was created at; the description
\* is empty unless the caller gives one
NoEntry == [ID |-> 0, Type |-> "NONE", StartTime |-> 0, Description |-> "", Tag |-> TagUnset]

NewTimeEntry(entryType, t) ==
    [ID |-> t, Type |-> entryType, StartTime |-> t, Description |-> "", Tag |-> TagUnset]

NewInterruptionEntry(tag, t) == [NewTimeEntry(EntryTypeInterruption, t) EXCEPT !.Tag = tag]

NewSession(startEntry, t) ==
    [ID |-> <<"sess", t>>,
     Start |-> startEntry,
     End |-> NoEntry,
     SubSessions |-> << [Start |-> startEntry, End |-> NoEntry, Interruptions |-> <<>>] >>,
     Interruptions |-> <<>>]

(***************************************************************************)
(* DailySessions.GetStats.  The loops over the interruption list advance   *)
(* two entries at a time and look at the pair only when its second entry   *)
(* exists.                                                                 *)
(***************************************************************************)
RECURSIVE PairLoop(_, _)
PairLoop(interruptions, i) ==
    IF i > Len(interruptions) THEN 0
    ELSE (IF i + 1 <= Len(interruptions)
          THEN interruptions[i + 1].StartTime - interruptions[i].StartTime
          ELSE 0) + PairLoop(interruptions, i + 2)

ZeroStats == [work |-> 0, interruption |-> 0, count |-> 0]

AddStats(a, b) ==
    [work |-> a.work + b.work,
     interruption |-> a.interruption + b.interruption,
     count |-> a.count + b.count]

\* variant: an open interruption is charged up to now, as the duration column does
SubSessionStats_ChargesOpenInterruption(subSession, timeNow) ==
    IF subSession.Start # NoEntry
    THEN LET endTime == IF subSession.End # NoEntry THEN subSession.End.StartTime ELSE timeNow
             subSessionDuration == endTime - subSession.Start.StartTime
             open == Len(subSession.Interruptions) % 2 = 1
             interruptionDuration ==
                 PairLoop(subSession.Interruptions, 1)
                 + (IF open
                    THEN timeNow - subSession.Interruptions[Len(subSession.Interruptions)].StartTime
                    ELSE 0)
         IN  [work |-> subSessionDuration - interruptionDuration,
              interruption |-> interruptionDuration,
              count |-> (Len(subSession.Interruptions) + 1) \div 2]
    ELSE ZeroStats

SubSessionStats(subSession, timeNow) ==
    IF subSession.Start # NoEntry
    THEN LET endTime == IF subSession.End # NoEntry THEN subSession.End.StartTime ELSE timeNow
             subSessionDuration == endTime - subSession.Start.StartTime
             interruptionDuration == PairLoop(subSession.Interruptions, 1)
         IN  [work |-> subSessionDuration - interruptionDuration,
              interruption |-> interruptionDuration,
              count |-> Len(subSession.Interruptions) \div 2]
    ELSE ZeroStats

\* variant: the interruption time is not taken off the session duration
LegacySessionStats_KeepsInterruptions(session) ==
    IF session.Start # NoEntry /\ session.End # NoEntry
    THEN LET sessionDuration == session.End.StartTime - session.Start.StartTime
             interruptionDuration == PairLoop(session.Interruptions, 1)
         IN  [work |-> sessionDuration,
              interruption |-> interruptionDuration,
              count |-> Len(session.Interruptions) \div 2]
    ELSE ZeroStats

LegacySessionStats(session) ==
    IF session.Start # NoEntry /\ session.End # NoEntry
    THEN LET sessionDuration == session.End.StartTime - session.Start.StartTime
             interruptionDuration == PairLoop(session.Interruptions, 1)
         IN  [work |-> sessionDuration - interruptionDuration,
              interruption |-> interruptionDuration,
              count |-> Len(session.Interruptions) \div 2]
    ELSE ZeroStats

RECURSIVE SubSessionsLoop(_, _, _)
SubSessionsLoop(subSessions, k, timeNow) ==
    IF k > Len(subSessions) THEN ZeroStats
    ELSE AddStats(SubSessionStats(subSessions[k], timeNow),
                  SubSessionsLoop(subSessions, k + 1, timeNow))

SessionStats(session, timeNow) ==
    IF Len(session.SubSessions) > 0
    THEN SubSessionsLoop(session.SubSessions, 1, timeNow)
    ELSE LegacySessionStats(session)

RECURSIVE GetStatsLoop(_, _, _)
GetStatsLoop(sessions, k, timeNow) ==
    IF k > Len(sessions) THEN ZeroStats
    ELSE AddStats(SessionStats(sessions[k], timeNow),
                  GetStatsLoop(sessions, k + 1, timeNow))

GetStats(sessions, timeNow) == GetStatsLoop(sessions, 1, timeNow)

(***************************************************************************)
(* DailySessions.GetInterruptionTagStats.  statsMap is a map from tag to   *)
(* a pointer to its statistics; looking up a tag that has no entry yields  *)
(* a nil pointer, and the increment through it is a nil dereference: the   *)
(* call panics and returns nothing.  The returned slice is in map order,   *)
(* which Go leaves unspecified, so the result is kept as the map itself.   *)
(***************************************************************************)
ZeroTagStats(tag) ==
    [Tag |-> tag, Count |-> 0, TotalTime |-> 0, RecoveryTime |-> 0,
     TotalWithRecovery |-> 0, AverageTime |-> 0]

\* variant: no entry is created up front
InitStatsMap_Empty == [tag \in {} |-> ZeroTagStats(tag)]

InitStatsMap == [tag \in KnownTags |-> ZeroTagStats(tag)]

\* Go's integer division truncates toward zero.
GoDiv(a, b) == IF a >= 0 THEN a \div b ELSE -((-a) \div b)

EffectiveTag(interruption) ==
    IF interruption.Tag = TagUnset THEN TagOther ELSE interruption.Tag

\* variant: the combined total misses the recovery time
UpdateTagStats_NoRecoveryInTotal(stats, interruptDuration) ==
    [stats EXCEPT !.Count = @ + 1,
                  !.TotalTime = @ + interruptDuration,
                  !.RecoveryTime = @ + RecoveryMinutes,
                  !.TotalWithRecovery = @ + interruptDuration]

UpdateTagStats(stats, interruptDuration) ==
    [stats EXCEPT !.Count = @ + 1,
                  !.TotalTime = @ + interruptDuration,
                  !.RecoveryTime = @ + RecoveryMinutes,
                  !.TotalWithRecovery = @ + interruptDuration + RecoveryMinutes]

RECURSIVE TagPairLoop(_, _, _)
TagPairLoop(state, interruptions, i) ==
    IF i > Len(interruptions) \/ state.panicked THEN state
    ELSE IF i + 1 <= Len(interruptions)
         THEN LET tag == EffectiveTag(interruptions[i])
                  interruptDuration ==
                      interruptions[i + 1].StartTime - interruptions[i].StartTime
              IN  IF tag \notin DOMAIN state.statsMap
                  THEN [state EXCEPT !.panicked = TRUE]
                  ELSE TagPairLoop(
                           [state EXCEPT !.statsMap[tag] = UpdateTagStats(@, interruptDuration)],
                           interruptions, i + 2)
         ELSE TagPairLoop(state, interruptions, i + 2)

RECURSIVE TagSessionsLoop(_, _, _)
TagSessionsLoop(state, sessions, k) ==
    IF k > Len(sessions) THEN state
    ELSE TagSessionsLoop(TagPairLoop(state, sessions[k].Interruptions, 1), sessions, k + 1)

WithAverage(stats) ==
    IF stats.Count > 0
    THEN [stats EXCEPT !.AverageTime = GoDiv(stats.TotalTime, stats.Count)]
    ELSE stats

GetInterruptionTagStats(sessions) ==
    LET scanned == TagSessionsLoop([statsMap |-> InitStatsMap, panicked |-> FALSE], sessions, 1)
    IN  IF scanned.panicked
        THEN [panicked |-> TRUE, stats |-> <<>>]
        ELSE [panicked |-> FALSE,
              stats |-> [tag \in DOMAIN scanned.statsMap |-> WithAverage(scanned.statsMap[tag])]]

(***************************************************************************)
(* DetailedStats.CalculateProductivityScore.  The float64 score is kept as *)
(* the exact fraction num/den (den > 0); a division by a zero session      *)
(* count gives NaN (0/0) or +Inf in float64, never a fault, and +Inf makes *)
(* the penalised score -Inf.                                               *)
(***************************************************************************)
RECURSIVE SumDurations(_, _)
SumDurations(durationByTag, tags) ==
    IF tags = {} THEN 0
    ELSE LET tag == CHOOSE x \in tags : TRUE
         IN  durationByTag[tag] + SumDurations(durationByTag, tags \ {tag})

Fraction(n, d) == [kind |-> "finite", num |-> n, den |-> d]

NegativeInfinity == [kind |-> "-inf", num |-> -1, den |-> 0]

FractionGreater(f, k) == f.num > k * f.den

CalculateProductivityScore(s) ==
    IF s.TotalWorkDuration = 0 THEN Fraction(0, 1)
    ELSE LET totalInterruptionTime ==
                 SumDurations(s.InterruptionDurationByTag, DOMAIN s.InterruptionDurationByTag)
             recoveryTime == s.TotalInterruptions * RecoveryMinutes
             totalImpactedTime == totalInterruptionTime + recoveryTime
             totalTime == s.TotalWorkDuration + totalImpactedTime
             score == Fraction(100 * s.TotalWorkDuration, totalTime)
             \* interruptionRatio > 0.5, for a ratio of two non-negative integers
             ratioIsNaN == s.TotalSessions = 0 /\ s.TotalInterruptions = 0
             ratioIsInf == s.TotalSessions = 0 /\ s.TotalInterruptions > 0
             ratioAboveHalf == ratioIsInf \/
                               (s.TotalSessions > 0 /\ 2 * s.TotalInterruptions > s.TotalSessions)
             \* score * (1 - (ratio - 0.5) * 0.2), ratio = n/S:
             \* 1 - (2n - S)/(10 S) = (11 S - 2 n) / (10 S)
             penalised ==
                 IF ratioIsInf THEN NegativeInfinity
                 ELSE Fraction(score.num * (11 * s.TotalSessions - 2 * s.TotalInterruptions),
                               score.den * 10 * s.TotalSessions)
             afterPenalty == IF ~ratioIsNaN /\ ratioAboveHalf THEN penalised ELSE score
         IN  IF afterPenalty.kind = "finite" /\ FractionGreater(afterPenalty, 100)
             THEN Fraction(100, 1)
             ELSE afterPenalty

(***************************************************************************)
(* State.                                                                  *)
(*   storage        the Storage in use: encryptionEnabled, encryptionKey,  *)
(*                  backupEnabled                                          *)
(*   store          the data directory of the storage: the day files and   *)
(*                  the backups                                            *)
(*   today          the calendar date of the system clock                  *)
(*   now            the system clock, in minutes                           *)
(*   running        whether the terminal UI process is running             *)
(*   currentDay     TimerUI.currentDay (Date, Sessions)                    *)
(*   activeSession  TimerUI.activeSession: the position in                 *)
(*                  currentDay.Sessions of the session the pointer refers  *)
(*                  to, 0 for nil                                          *)
(*   page           the front page of TimerUI.pages                        *)
(*   pending        what the callback of the open dialog has captured      *)
(*   tableRows      row count of TimerUI.sessionsTable (header included)   *)
(*   arg, ret       argument and result of the last call of a pure         *)
(*                  function of the accounting engine                      *)
(***************************************************************************)
VARIABLES storage, store, today, now, running, currentDay, activeSession, page, pending,
          tableRows, arg, ret

vars == <<storage, store, today, now, running, currentDay, activeSession, page, pending,
          tableRows, arg, ret>>

uiVars == <<running, currentDay, activeSession, page, pending, tableRows>>

callVars == <<storage, arg, ret>>

Days == 1..MaxDay

NoPending == [kind |-> "none", index |-> 0, tag |-> TagUnset]

NoCall == [op |-> "none"]

Max(a, b) == IF a >= b THEN a ELSE b

Last(seq) == seq[Len(seq)]

RemoveAt(seq, k) == SubSeq(seq, 1, k - 1) \o SubSeq(seq, k + 1, Len(seq))

IsActive(session) == session.End = NoEntry

\* an interruption is open: the list is non-empty and of odd length
Interrupted(interruptions) == Len(interruptions) > 0 /\ Len(interruptions) % 2 # 0

(***************************************************************************)
(* Byte strings.  The model keeps of a byte string its length and what it  *)
(* holds: in the clear (key = NoKey) either raw bytes [raw |-> ...] or a   *)
(* JSON document, and under AES-GCM the plaintext that was sealed together *)
(* with the key and the nonce it was sealed under.  The authentication     *)
(* tag is taken as unforgeable: a sealed string opens under the key it was *)
(* sealed with as long as no byte of it was changed (intact).              *)
(***************************************************************************)
nil == "nil"

NonceSize == 12

TagSize == 16

NoKey == 0

NoNonce == 0

Bytes(content, size) ==
    [size |-> size, key |-> NoKey, nonce |-> NoNonce, intact |-> TRUE, content |-> content]

\* rand.Reader never delivers a nonce twice; nonces are numbered by the clock
FreshNonce == now + 1

\* aesgcm.Seal(nil, nonce, data, nil): the ciphertext and the tag
Seal(key, nonce, data) ==
    [size |-> data.size + TagSize, key |-> key, nonce |-> nonce, intact |-> TRUE,
     content |-> data.content]

\* aesgcm.Open(nil, nonce, ciphertext, nil)
Open(key, nonce, ciphertext) ==
    IF /\ ciphertext.key # NoKey
       /\ ciphertext.key = key
       /\ ciphertext.nonce = nonce
       /\ ciphertext.intact
       /\ ciphertext.size >= TagSize
    THEN [err |-> nil, data |-> Bytes(ciphertext.content, ciphertext.size - TagSize)]
    ELSE [err |-> "cipher: message authentication failed", data |-> Bytes([raw |-> <<>>], 0)]

\* variant: the nonce is not counted in the length of the result
encrypt_NonceNotCounted(s, data) ==
    IF ~s.encryptionEnabled THEN [err |-> nil, data |-> data]
    ELSE [err |-> nil, data |-> Seal(s.encryptionKey, FreshNonce, data)]

\* Storage.encrypt
encrypt(s, data) ==
    IF ~s.encryptionEnabled THEN [err |-> nil, data |-> data]
    ELSE LET nonce == FreshNonce
             ciphertext == Seal(s.encryptionKey, nonce, data)
             \* the nonce is put in front of the ciphertext
             result == [ciphertext EXCEPT !.size = NonceSize + @]
         IN  [err |-> nil, data |-> result]

\* variant: the length check is all that decrypt does before handing the
\* sealed content out
decrypt_Unauthenticated(s, data) ==
    IF ~s.encryptionEnabled THEN [err |-> nil, data |-> data]
    ELSE IF data.size < 13
         THEN [err |-> "invalid encrypted data: too short", data |-> Bytes([raw |-> <<>>], 0)]
         ELSE [err |-> nil, data |-> Bytes(data.content, data.size - NonceSize - TagSize)]

\* Storage.decrypt
decrypt(s, data) ==
    IF ~s.encryptionEnabled THEN [err |-> nil, data |-> data]
    ELSE IF data.size < 13
         THEN [err |-> "invalid encrypted data: too short", data |-> Bytes([raw |-> <<>>], 0)]
         ELSE LET nonce == data.nonce                                \* data[:12]
                  ciphertext == [data EXCEPT !.size = @ - NonceSize] \* data[12:]
                  opened == Open(s.encryptionKey, nonce, ciphertext)
              IN  IF opened.err # nil
                  THEN [err |-> "failed to decrypt data", data |-> opened.data]
                  ELSE opened

(***************************************************************************)
(* encoding/json on the data model.  A JSON object is a record of the      *)
(* members that are written; a member tagged omitempty is left out when    *)
(* its value is empty and reads back as the zero value.                    *)
(***************************************************************************)
EmptyObject == [name \in {} |-> 0]

Member(name, value) == name :> value

OmitEmpty(name, value, empty) == IF value = empty THEN EmptyObject ELSE Member(name, value)

Field(object, name, zero) == IF name \in DOMAIN object THEN object[name] ELSE zero

JSONNull == [null |-> TRUE]

\* variant: the description of an entry is not written
MarshalTimeEntry_WithoutDescription(entry) ==
    IF entry = NoEntry THEN JSONNull
    ELSE Member("id", entry.ID) @@ Member("type", entry.Type)
         @@ Member("start_time", entry.StartTime)
         @@ OmitEmpty("tag", entry.Tag, TagUnset)

MarshalTimeEntry(entry) ==
    IF entry = NoEntry THEN JSONNull
    ELSE Member("id", entry.ID) @@ Member("type", entry.Type)
         @@ Member("start_time", entry.StartTime)
         @@ OmitEmpty("description", entry.Description, "")
         @@ OmitEmpty("tag", entry.Tag, TagUnset)

UnmarshalTimeEntry(object) ==
    IF object = JSONNull THEN NoEntry
    ELSE [ID |-> Field(object, "id", 0),
          Type |-> Field(object, "type", ""),
          StartTime |-> Field(object, "start_time", 0),
          Description |-> Field(object, "description", ""),
          Tag |-> Field(object, "tag", TagUnset)]

MarshalEntries(entries) == [k \in 1..Len(entries) |-> MarshalTimeEntry(entries[k])]

UnmarshalEntries(array) == [k \in 1..Len(array) |-> UnmarshalTimeEntry(array[k])]

MarshalSubSession(subSession) ==
    Member("start", MarshalTimeEntry(subSession.Start))
    @@ OmitEmpty("end", MarshalTimeEntry(subSession.End), JSONNull)
    @@ OmitEmpty("interruptions", MarshalEntries(subSession.Interruptions), <<>>)

UnmarshalSubSession(object) ==
    [Start |-> UnmarshalTimeEntry(Field(object, "start", JSONNull)),
     End |-> UnmarshalTimeEntry(Field(object, "end", JSONNull)),
     Interruptions |-> UnmarshalEntries(Field(object, "interruptions", <<>>))]

MarshalSession(session) ==
    Member("id", session.ID)
    @@ Member("start", MarshalTimeEntry(session.Start))
    @@ OmitEmpty("end", MarshalTimeEntry(session.End), JSONNull)
    @@ Member("sub_sessions",
              [k \in 1..Len(session.SubSessions) |-> MarshalSubSession(session.SubSessions[k])])
    @@ OmitEmpty("interruptions", MarshalEntries(session.Interruptions), <<>>)

NoID == <<>>

UnmarshalSession(object) ==
    [ID |-> Field(object, "id", NoID),
     Start |-> UnmarshalTimeEntry(Field(object, "start", JSONNull)),
     End |-> UnmarshalTimeEntry(Field(object, "end", JSONNull)),
     SubSessions |-> LET array == Field(object, "sub_sessions", <<>>)
                     IN  [k \in 1..Len(array) |-> UnmarshalSubSession(array[k])],
     Interruptions |-> UnmarshalEntries(Field(object, "interruptions", <<>>))]

MarshalDailySessions(sessions) ==
    Member("date", sessions.Date)
    @@ Member("sessions",
              [k \in 1..Len(sessions.Sessions) |-> MarshalSession(sessions.Sessions[k])])

UnmarshalDailySessions(object) ==
    [Date |-> Field(object, "date", 0),
     Sessions |-> LET array == Field(object, "sessions", <<>>)
                  IN  [k \in 1..Len(array) |-> UnmarshalSession(array[k])]]

\* the text of a marshalled day is never shorter than that of an empty day
EmptyDayTextSize == 80

JSONText(object) == Bytes(object, EmptyDayTextSize + Len(Field(object, "sessions", <<>>)))

\* json.Unmarshal accepts a byte string that is the text of a JSON object
IsJSONText(data) == data.key = NoKey /\ "raw" \notin DOMAIN data.content

CurrentSchemaVersion == 1

GetSchemaVersion == CurrentSchemaVersion

(***************************************************************************)
(* The data directory: files maps a date to the bytes of its day file, or  *)
(* to NoFile; backups is the content of the backups directory, one record  *)
(* per file, named after the date and the time the backup was taken;       *)
(* backupDir tells whether a file can be written into that directory.      *)
(***************************************************************************)
NoFile == [exists |-> FALSE]

EmptyDir == [files |-> [d \in Days |-> NoFile], backups |-> {}, backupDir |-> TRUE]

\* os.Stat / os.ReadFile on getFilePath(date)
FileAt(dir, date) == IF date \in DOMAIN dir.files THEN dir.files[date] ELSE NoFile

\* os.WriteFile on a path: a file of that name is replaced
WriteBackup(backups, date, timestamp, data) ==
    {b \in backups : ~(b.date = date /\ b.timestamp = timestamp)}
    \cup {[date |-> date, timestamp |-> timestamp, data |-> data]}

\* Storage.createBackup: the error and the backups directory after the call
createBackup(s, dir, date) ==
    IF ~s.backupEnabled THEN [err |-> nil, backups |-> dir.backups]
    ELSE IF FileAt(dir, date) = NoFile THEN [err |-> nil, backups |-> dir.backups]
    ELSE IF ~dir.backupDir
         THEN [err |-> "failed to write backup file", backups |-> dir.backups]
         ELSE [err |-> nil, backups |-> WriteBackup(dir.backups, date, now, FileAt(dir, date))]

\* variant: the backup is taken after the day file was written
SaveDailySessions_BackupAfterWrite(s, dir, sessions) ==
    LET sessionsWithSchema ==
            Member("schema_version", GetSchemaVersion) @@ MarshalDailySessions(sessions)
        data == JSONText(sessionsWithSchema)
        written == IF s.encryptionEnabled THEN encrypt(s, data).data ELSE data
        saved == [dir EXCEPT !.files[sessions.Date] = written]
    IN  [saved EXCEPT !.backups = createBackup(s, saved, sessions.Date).backups]

\* Storage.SaveDailySessions: the directory after the call.  The error of
\* createBackup is written to stderr and the save goes on.
SaveDailySessions(s, dir, sessions) ==
    LET sessionsWithSchema ==
            Member("schema_version", GetSchemaVersion) @@ MarshalDailySessions(sessions)
        data == JSONText(sessionsWithSchema)
        backedUp == [dir EXCEPT !.backups = createBackup(s, dir, sessions.Date).backups]
        written == IF s.encryptionEnabled THEN encrypt(s, data).data ELSE data
    IN  [backedUp EXCEPT !.files[sessions.Date] = written]

\* variant: every session gets a new id
migrateSchema_RenumbersAll(oldVersion, sessions) ==
    [sessions EXCEPT !.Sessions =
        [k \in 1..Len(sessions.Sessions) |->
            [sessions.Sessions[k] EXCEPT !.ID = <<"sess", sessions.Sessions[k].Start.StartTime, now>>]]]

\* Storage.migrateSchema
migrateSchema(oldVersion, sessions) ==
    LET migrated(session) ==
            IF session.ID = NoID
            THEN [session EXCEPT !.ID = <<"sess", session.Start.StartTime, now>>]
            ELSE session
    IN  [sessions EXCEPT !.Sessions =
            [k \in 1..Len(sessions.Sessions) |-> migrated(sessions.Sessions[k])]]

NoSessions == [Date |-> 0, Sessions |-> <<>>]

\* Storage.LoadDailySessions: the pair (sessions, err) it returns
LoadDailySessions(s, dir, date) ==
    IF FileAt(dir, date) = NoFile
    THEN [err |-> nil, sessions |-> [Date |-> date, Sessions |-> <<>>]]
    ELSE LET decrypted == IF s.encryptionEnabled
                          THEN decrypt(s, FileAt(dir, date))
                          ELSE [err |-> nil, data |-> FileAt(dir, date)]
             data == decrypted.data
         IN  IF decrypted.err # nil
             THEN [err |-> "failed to decrypt sessions", sessions |-> NoSessions]
             ELSE IF ~IsJSONText(data)
                  \* the second attempt, without the schema version, reads the same bytes
                  THEN [err |-> "failed to unmarshal sessions", sessions |-> NoSessions]
                  ELSE LET schemaVersion == Field(data.content, "schema_version", 0)
                           parsed == UnmarshalDailySessions(data.content)
                       IN  IF schemaVersion < GetSchemaVersion
                           THEN [err |-> nil, sessions |-> migrateSchema(schemaVersion, parsed)]
                           ELSE [err |-> nil, sessions |-> parsed]

(***************************************************************************)
(* refreshTable: rows 1..n are filled in display order; rows are never     *)
(* removed from the table, only blanked.                                   *)
(***************************************************************************)
SessionLess(a, b) ==
    IF IsActive(a) /\ ~IsActive(b) THEN TRUE
    ELSE IF ~IsActive(a) /\ IsActive(b) THEN FALSE
    ELSE a.Start.StartTime > b.Start.StartTime

\* the orders sort.Slice may produce: positions of the sessions, in display order
SortedOrders(sessions) ==
    {p \in [1..Len(sessions) -> 1..Len(sessions)] :
        /\ \A a, b \in 1..Len(sessions) : a # b => p[a] # p[b]
        /\ \A a, b \in 1..Len(sessions) : a < b => ~SessionLess(sessions[p[b]], sessions[p[a]])}

RefreshedRows(rows, sessions) == Max(rows, Len(sessions) + 1)

FirstActive(sessions) ==
    IF \E k \in 1..Len(sessions) : IsActive(sessions[k])
    THEN CHOOSE k \in 1..Len(sessions) :
             IsActive(sessions[k]) /\ \A m \in 1..(k - 1) : ~IsActive(sessions[m])
    ELSE 0

(***************************************************************************)
(* The session commands of the terminal UI (ui/session.go, ui/ui.go).      *)
(* KeyHandler dispatches a command only while the front page is "main";    *)
(* a dialog is a page of its own, so between a command and the callback of *)
(* its dialog no other command runs.  A command that is refused only sets  *)
(* the status bar and leaves the state as it is.                           *)
(***************************************************************************)
\* the tail of every mutating command: SaveDailySessions(currentDay), refreshTable()
Commit(newSessions) ==
    /\ currentDay' = [currentDay EXCEPT !.Sessions = newSessions]
    /\ store' = SaveDailySessions(storage, store, [currentDay EXCEPT !.Sessions = newSessions])
    /\ tableRows' = RefreshedRows(tableRows, newSessions)

OpenDialog(name, captured) ==
    /\ page' = name
    /\ pending' = captured
    /\ UNCHANGED <<store, today, now, running, currentDay, activeSession, tableRows>>

CloseDialog ==
    /\ page' = "main"
    /\ pending' = NoPending

StartSession ==
    /\ running /\ page = "main"
    /\ Len(currentDay.Sessions) < MaxSessions
    /\ IF activeSession # 0
       THEN UNCHANGED <<store, today, now, uiVars>>
       ELSE OpenDialog("input", [NoPending EXCEPT !.kind = "start"])
    /\ UNCHANGED callVars

\* descriptionAction of startSession, run when the description is submitted
SubmitDescription ==
    /\ running /\ page = "input" /\ pending.kind = "start"
    /\ now < MaxTime
    /\ LET entry == NewTimeEntry(EntryTypeStart, now)
           session == NewSession(entry, now)
       IN  /\ Commit(Append(currentDay.Sessions, session))
           /\ activeSession' = Len(currentDay.Sessions) + 1
    /\ CloseDialog
    /\ now' = now + 1
    /\ UNCHANGED <<today, running, callVars>>

\* Cancel button or Escape of an input dialog, Escape of the tag selection
CancelDialog ==
    /\ running /\ page \in {"input", "tag_select"}
    /\ CloseDialog
    /\ UNCHANGED <<store, today, now, running, currentDay, activeSession, tableRows, callVars>>

EndSessionUpdate(session, entry) ==
    [session EXCEPT
        !.End = entry,
        !.SubSessions = IF Len(session.SubSessions) > 0
                        THEN [@ EXCEPT ![Len(session.SubSessions)].End = entry]
                        ELSE @]

\* variant: the session is ended although an interruption is open
EndSession_WhileInterrupted ==
    /\ running /\ page = "main"
    /\ now < MaxTime
    /\ IF activeSession = 0
       THEN UNCHANGED <<store, now, currentDay, activeSession, tableRows>>
       ELSE LET active == currentDay.Sessions[activeSession]
            IN  /\ Commit([currentDay.Sessions EXCEPT ![activeSession] =
                              EndSessionUpdate(active, NewTimeEntry(EntryTypeEnd, now))])
                /\ activeSession' = 0
                /\ now' = now + 1
    /\ UNCHANGED <<today, running, page, pending, callVars>>

EndSession ==
    /\ running /\ page = "main"
    /\ now < MaxTime
    /\ IF activeSession = 0
       THEN UNCHANGED <<store, now, currentDay, activeSession, tableRows>>
       ELSE LET active == currentDay.Sessions[activeSession]
            IN  IF Len(active.SubSessions) > 0
                   /\ Interrupted(Last(active.SubSessions).Interruptions)
                THEN UNCHANGED <<store, now, currentDay, activeSession, tableRows>>
                ELSE /\ Commit([currentDay.Sessions EXCEPT ![activeSession] =
                                   EndSessionUpdate(active, NewTimeEntry(EntryTypeEnd, now))])
                     /\ activeSession' = 0
                     /\ now' = now + 1
    /\ UNCHANGED <<today, running, page, pending, callVars>>

InterruptSession ==
    /\ running /\ page = "main"
    /\ IF activeSession = 0
       THEN UNCHANGED <<store, today, now, uiVars>>
       ELSE LET active == currentDay.Sessions[activeSession]
            IN  IF Len(active.SubSessions) = 0
                   \/ Interrupted(Last(active.SubSessions).Interruptions)
                THEN UNCHANGED <<store, today, now, uiVars>>
                ELSE OpenDialog("tag_select", NoPending)
    /\ UNCHANGED callVars

RecordInterruptionUpdate(session, entry) ==
    IF Len(session.SubSessions) > 0
    THEN [session EXCEPT
             !.SubSessions[Len(session.SubSessions)].Interruptions = Append(@, entry),
             !.Interruptions = Append(@, entry)]
    ELSE [session EXCEPT !.Interruptions = Append(@, entry)]

recordInterruption(entry) ==
    /\ Commit([currentDay.Sessions EXCEPT ![activeSession] =
                  RecordInterruptionUpdate(currentDay.Sessions[activeSession], entry)])
    /\ UNCHANGED activeSession

\* a button (or digit key) of the tag selection: 1 call, 2 meeting, 3 spouse, 4 other
SelectTag(button) ==
    /\ running /\ page = "tag_select"
    /\ now < MaxTime
    /\ IF button = 4
       THEN OpenDialog("input", [NoPending EXCEPT !.kind = "interruption", !.tag = TagOther])
       ELSE /\ recordInterruption(NewInterruptionEntry(GetInterruptionTags[button], now))
            /\ CloseDialog
            /\ now' = now + 1
            /\ UNCHANGED <<today, running>>
    /\ UNCHANGED callVars

\* the description dialog of an "other" interruption is submitted
SubmitInterruptionDescription ==
    /\ running /\ page = "input" /\ pending.kind = "interruption"
    /\ now < MaxTime
    /\ recordInterruption(NewInterruptionEntry(pending.tag, now))
    /\ CloseDialog
    /\ now' = now + 1
    /\ UNCHANGED <<today, running, callVars>>

BackFromInterruptionUpdate(session, entry) ==
    [session EXCEPT
        !.SubSessions[Len(session.SubSessions)].Interruptions = Append(@, entry),
        !.Interruptions = Append(@, entry)]

BackFromInterruption ==
    /\ running /\ page = "main"
    /\ now < MaxTime
    /\ IF activeSession = 0
       THEN UNCHANGED <<store, now, currentDay, activeSession, tableRows>>
       ELSE LET active == currentDay.Sessions[activeSession]
            IN  IF Len(active.SubSessions) = 0
                   \/ ~Interrupted(Last(active.SubSessions).Interruptions)
                THEN UNCHANGED <<store, now, currentDay, activeSession, tableRows>>
                ELSE /\ Commit([currentDay.Sessions EXCEPT ![activeSession] =
                                   BackFromInterruptionUpdate(active, NewTimeEntry(EntryTypeReturn, now))])
                     /\ now' = now + 1
                     /\ UNCHANGED activeSession
    /\ UNCHANGED <<today, running, page, pending, callVars>>

\* row is the selected row of the sessions table (row 0 is the header)
DeleteSelectedSession(row) ==
    /\ running /\ page = "main"
    /\ IF row <= 0 \/ row > Len(currentDay.Sessions)
       THEN UNCHANGED <<store, today, now, uiVars>>
       ELSE OpenDialog("confirm", [NoPending EXCEPT !.kind = "delete", !.index = row])
    /\ UNCHANGED callVars

ResumeSession(row, order) ==
    /\ running /\ page = "main"
    /\ IF activeSession # 0 \/ row <= 0 \/ row > tableRows - 1
          \/ ~(row <= Len(currentDay.Sessions))
       THEN UNCHANGED <<store, today, now, uiVars>>
       ELSE IF IsActive(currentDay.Sessions[order[row]])
            THEN UNCHANGED <<store, today, now, uiVars>>
            ELSE OpenDialog("confirm", [NoPending EXCEPT !.kind = "resume", !.index = order[row]])
    /\ UNCHANGED callVars

\* variant: deleting the active session leaves the pointer set
ActiveAfterDelete_KeepsPointer(active, index) ==
    IF active > index THEN active - 1 ELSE active

\* after a delete the pointer activeSession still refers to the same session
ActiveAfterDelete(active, index) ==
    IF active = index THEN 0
    ELSE IF active > index THEN active - 1
    ELSE active

ResumeUpdate(session, newStartEntry) ==
    [session EXCEPT
        !.SubSessions = Append(@, [Start |-> newStartEntry, End |-> NoEntry,
                                   Interruptions |-> <<>>]),
        !.End = NoEntry]

\* a button of the confirmation dialog of delete or resume
ConfirmDialog(confirmed) ==
    /\ running /\ page = "confirm"
    /\ IF ~confirmed
       THEN UNCHANGED <<store, now, currentDay, activeSession, tableRows>>
       ELSE IF pending.kind = "delete"
            THEN /\ activeSession' = ActiveAfterDelete(activeSession, pending.index)
                 /\ Commit(RemoveAt(currentDay.Sessions, pending.index))
                 /\ UNCHANGED now
            ELSE /\ now < MaxTime
                 /\ Commit([currentDay.Sessions EXCEPT ![pending.index] =
                               ResumeUpdate(@, NewTimeEntry(EntryTypeStart, now))])
                 /\ activeSession' = pending.index
                 /\ now' = now + 1
    /\ CloseDialog
    /\ UNCHANGED <<today, running, callVars>>

\* 'q' on the main or the stats page, or Ctrl-C on any page: the open dialog
\* and the stats view are dropped
Quit ==
    /\ running
    /\ running' = FALSE
    /\ CloseDialog
    /\ ret' = NoCall
    /\ UNCHANGED <<store, today, now, currentDay, activeSession, tableRows, storage, arg>>

\* the calendar date changes
Midnight ==
    /\ today < MaxDay
    /\ today' = today + 1
    /\ UNCHANGED <<store, now, uiVars, callVars>>

(***************************************************************************)
(* NewTimerUI followed by Run: load today, find the active session, carry  *)
(* an active session of the previous day over, fill the table.  The carry  *)
(* makes two saves; written is the number of them that were done when the  *)
(* process stopped: 2 when NewTimerUI returned the UI, less when a save    *)
(* failed and NewTimerUI returned its error, or the process was killed.    *)
(***************************************************************************)
\* variant: the previous day is rewritten before today is saved
CarryOverSaves_PreviousFirst(s, dir, moved, rest, written) ==
    IF written = 0 THEN dir
    ELSE IF written = 1 THEN SaveDailySessions(s, dir, rest)
    ELSE SaveDailySessions(s, SaveDailySessions(s, dir, rest), moved)

\* the directory after the first `written` of the two saves of the carry
CarryOverSaves(s, dir, moved, rest, written) ==
    IF written = 0 THEN dir
    ELSE IF written = 1 THEN SaveDailySessions(s, dir, moved)
    ELSE SaveDailySessions(s, SaveDailySessions(s, dir, moved), rest)

NewTimerUI(written) ==
    /\ ~running
    /\ LoadDailySessions(storage, store, today).err = nil
    /\ LET dailySessions == LoadDailySessions(storage, store, today).sessions
           found == FirstActive(dailySessions.Sessions)
           previous == LoadDailySessions(storage, store, today - 1)
           previousSessions == previous.sessions
           fromPrevious == IF previous.err = nil THEN FirstActive(previousSessions.Sessions) ELSE 0
       IN  IF found = 0 /\ fromPrevious # 0
           THEN LET moved == [dailySessions EXCEPT !.Sessions =
                                 Append(@, previousSessions.Sessions[fromPrevious])]
                    rest == [previousSessions EXCEPT !.Sessions = RemoveAt(@, fromPrevious)]
                IN  /\ store' = CarryOverSaves(storage, store, moved, rest, written)
                    /\ IF written = 2
                       THEN /\ currentDay' = moved
                            /\ activeSession' = Len(moved.Sessions)
                            /\ tableRows' = Len(moved.Sessions) + 1
                            /\ running' = TRUE
                       ELSE UNCHANGED <<currentDay, activeSession, tableRows, running>>
           ELSE /\ written = 2
                /\ currentDay' = dailySessions
                /\ activeSession' = found
                /\ store' = store
                /\ tableRows' = Len(dailySessions.Sessions) + 1
                /\ running' = TRUE
    /\ CloseDialog
    /\ UNCHANGED <<today, now, callVars>>

\* variant: a pair is also made when the earlier session ends at the minute
\* the later one starts
MergedSessions_GapWhenTouching(sessions, index1, index2, timeNow) ==
    LET swap == sessions[index1].Start.StartTime > sessions[index2].Start.StartTime
        session1Index == IF swap THEN index2 ELSE index1
        session2Index == IF swap THEN index1 ELSE index2
        session1 == sessions[session1Index]
        session2 == sessions[session2Index]
        gap == /\ session1.End # NoEntry
               /\ session1.End.StartTime <= session2.Start.StartTime
        interruptEntry ==
            [NewInterruptionEntry(TagOther, timeNow) EXCEPT
                !.Description = "Auto-created gap between merged sessions",
                !.StartTime = session1.End.StartTime]
        returnEntry ==
            [NewTimeEntry(EntryTypeReturn, timeNow) EXCEPT !.StartTime = session2.Start.StartTime]
        mergedSession ==
            [ID |-> <<"merged", timeNow>>,
             Start |-> session1.Start,
             End |-> session2.End,
             Interruptions |->
                 (session1.Interruptions \o session2.Interruptions)
                 \o (IF gap THEN <<interruptEntry, returnEntry>> ELSE <<>>),
             SubSessions |-> session1.SubSessions \o session2.SubSessions]
        remaining ==
            IF session1Index < session2Index
            THEN RemoveAt(RemoveAt(sessions, session2Index), session1Index)
            ELSE RemoveAt(RemoveAt(sessions, session1Index), session2Index)
    IN  Append(remaining, mergedSession)

\* variant: the sessions are taken in the order of the indices given
MergedSessions_KeepsIndexOrder(sessions, index1, index2, timeNow) ==
    LET session1 == sessions[index1]
        session2 == sessions[index2]
        gap == /\ session1.End # NoEntry
               /\ session1.End.StartTime < session2.Start.StartTime
        interruptEntry ==
            [NewInterruptionEntry(TagOther, timeNow) EXCEPT
                !.Description = "Auto-created gap between merged sessions",
                !.StartTime = session1.End.StartTime]
        returnEntry ==
            [NewTimeEntry(EntryTypeReturn, timeNow) EXCEPT !.StartTime = session2.Start.StartTime]
        mergedSession ==
            [ID |-> <<"merged", timeNow>>,
             Start |-> session1.Start,
             End |-> session2.End,
             Interruptions |->
                 (session1.Interruptions \o session2.Interruptions)
                 \o (IF gap THEN <<interruptEntry, returnEntry>> ELSE <<>>),
             SubSessions |-> session1.SubSessions \o session2.SubSessions]
        remaining ==
            IF index1 < index2
            THEN RemoveAt(RemoveAt(sessions, index2), index1)
            ELSE RemoveAt(RemoveAt(sessions, index1), index2)
    IN  Append(remaining, mergedSession)

(***************************************************************************)
(* Storage.MergeSessions(date, session1Index, session2Index).  Positions   *)
(* are counted from 1 here.  The storage has a single writer, so the       *)
(* maintenance call runs while the UI is not running.                      *)
(***************************************************************************)
MergedSessions(sessions, index1, index2, timeNow) ==
    LET swap == sessions[index1].Start.StartTime > sessions[index2].Start.StartTime
        session1Index == IF swap THEN index2 ELSE index1
        session2Index == IF swap THEN index1 ELSE index2
        session1 == sessions[session1Index]
        session2 == sessions[session2Index]
        gap == /\ session1.End # NoEntry
               /\ session2.Start # NoEntry
               /\ session1.End.StartTime < session2.Start.StartTime
        interruptEntry ==
            [NewInterruptionEntry(TagOther, timeNow) EXCEPT
                !.Description = "Auto-created gap between merged sessions",
                !.StartTime = session1.End.StartTime]
        returnEntry ==
            [NewTimeEntry(EntryTypeReturn, timeNow) EXCEPT !.StartTime = session2.Start.StartTime]
        mergedSession ==
            [ID |-> <<"merged", timeNow>>,
             Start |-> session1.Start,
             End |-> session2.End,
             Interruptions |->
                 (session1.Interruptions \o session2.Interruptions)
                 \o (IF gap THEN <<interruptEntry, returnEntry>> ELSE <<>>),
             SubSessions |-> session1.SubSessions \o session2.SubSessions]
        remaining ==
            IF session1Index < session2Index
            THEN RemoveAt(RemoveAt(sessions, session2Index), session1Index)
            ELSE RemoveAt(RemoveAt(sessions, session1Index), session2Index)
    IN  Append(remaining, mergedSession)

\* the triple of values the call leaves behind: its error and the directory
MergeSessionsOn(s, dir, date, session1Index, session2Index) ==
    LET loaded == LoadDailySessions(s, dir, date)
        sessions == loaded.sessions
        n == Len(sessions.Sessions)
    IN  IF loaded.err # nil THEN [err |-> "failed to load sessions", dir |-> dir]
        ELSE IF session1Index < 1 \/ session1Index > n
                \/ session2Index < 1 \/ session2Index > n
                \/ session1Index = session2Index
        THEN [err |-> "invalid session indices", dir |-> dir]
        ELSE [err |-> nil,
              dir |-> SaveDailySessions(s, dir,
                          [sessions EXCEPT !.Sessions =
                              MergedSessions(@, session1Index, session2Index, now)])]

MergeSessions(date, session1Index, session2Index) ==
    /\ ~running
    /\ store' = MergeSessionsOn(storage, store, date, session1Index, session2Index).dir
    /\ UNCHANGED <<today, now, uiVars, callVars>>

\* variant: position 0 passes the bounds check
SecureDelete_NoLowerBound(s, dir, date, sessionIndex) ==
    LET loaded == LoadDailySessions(s, dir, date)
        sessions == loaded.sessions
    IN  IF loaded.err # nil THEN [err |-> "failed to load sessions", dir |-> dir]
        ELSE IF sessionIndex > Len(sessions.Sessions)
        THEN [err |-> "invalid session index", dir |-> dir]
        ELSE [err |-> nil,
              dir |-> SaveDailySessions(s, dir,
                          [sessions EXCEPT !.Sessions = RemoveAt(@, sessionIndex)])]

(***************************************************************************)
(* Storage.SecureDelete(date, sessionIndex), positions counted from 1.     *)
(***************************************************************************)
SecureDelete(s, dir, date, sessionIndex) ==
    LET loaded == LoadDailySessions(s, dir, date)
        sessions == loaded.sessions
    IN  IF loaded.err # nil THEN [err |-> "failed to load sessions", dir |-> dir]
        ELSE IF sessionIndex < 1 \/ sessionIndex > Len(sessions.Sessions)
        THEN [err |-> "invalid session index", dir |-> dir]
        ELSE [err |-> nil,
              dir |-> SaveDailySessions(s, dir,
                          [sessions EXCEPT !.Sessions = RemoveAt(@, sessionIndex)])]

(***************************************************************************)
(* Dates are day numbers; day 1 is Monday, 1 January.                      *)
(***************************************************************************)
Weekday(date) == ((date - 1) % 7) + 1       \* 1 = Monday ... 7 = Sunday

MonthLengths == <<31, 28, 31, 30, 31, 30, 31, 31, 30, 31, 30, 31>>

RECURSIVE FirstOfMonth(_)
\* the day number of the 1st of month m
FirstOfMonth(m) == IF m = 1 THEN 1 ELSE FirstOfMonth(m - 1) + MonthLengths[m - 1]

MonthOf(date) == CHOOSE m \in 1..12 : FirstOfMonth(m) <= date /\ date < FirstOfMonth(m) + MonthLengths[m]

\* Storage.ListAvailableDays: the dates that have a file with the name of a day file
ListAvailableDays(dir) == {d \in DOMAIN dir.files : dir.files[d] # NoFile}

Earliest(days) == CHOOSE d \in days : \A e \in days : d <= e

RangeTypes == {"day", "week", "month", "quarter", "year", "all"}

\* the date of now in the process's time zone: now is less than 24 hours
\* after today := now.Truncate(24h)
LocalDates == {today, today + 1}

\* Storage.GetDateRange.  date is the date of today := now.Truncate(24h) and
\* localDate the date of now itself, both as the process's time zone presents
\* them: Truncate rounds down to midnight UTC, so away from UTC the date of
\* today is for a part of every day the date before that of now.  The
\* weekday is read from now, everything else from today.
GetDateRange(dir, rangeType, date, localDate) ==
    CASE rangeType = "day" -> [err |-> nil, startDate |-> date, endDate |-> date]
      [] rangeType = "week" ->
            [err |-> nil, startDate |-> date - (Weekday(localDate) - 1), endDate |-> date]
      [] rangeType = "month" ->
            [err |-> nil, startDate |-> FirstOfMonth(MonthOf(date)), endDate |-> date]
      [] rangeType = "quarter" ->
            [err |-> nil,
             startDate |-> FirstOfMonth(MonthOf(date) - ((MonthOf(date) - 1) % 3)),
             endDate |-> date]
      [] rangeType = "year" -> [err |-> nil, startDate |-> 1, endDate |-> date]
      [] rangeType = "all" ->
            IF ListAvailableDays(dir) = {}
            THEN [err |-> nil, startDate |-> date, endDate |-> date]
            ELSE [err |-> nil, startDate |-> Earliest(ListAvailableDays(dir)), endDate |-> date]
      [] OTHER -> [err |-> "invalid range type", startDate |-> 0, endDate |-> 0]

(***************************************************************************)
(* Storage.GetStats(rangeType): the loop over the dates of the range.      *)
(***************************************************************************)
RECURSIVE RangeStatsLoop(_, _, _, _, _)
\* variant: the loop stops before the end date
RangeStatsLoop_EndExclusive(s, dir, d, endDate, timeNow) ==
    IF d >= endDate THEN ZeroStats
    ELSE LET loaded == LoadDailySessions(s, dir, d)
             rest == RangeStatsLoop(s, dir, d + 1, endDate, timeNow)
         IN  IF loaded.err # nil THEN rest
             ELSE AddStats(GetStats(loaded.sessions.Sessions, timeNow), rest)

RangeStatsLoop(s, dir, d, endDate, timeNow) ==
    IF d > endDate THEN ZeroStats
    ELSE LET loaded == LoadDailySessions(s, dir, d)
             rest == RangeStatsLoop(s, dir, d + 1, endDate, timeNow)
         IN  IF loaded.err # nil THEN rest
             ELSE AddStats(GetStats(loaded.sessions.Sessions, timeNow), rest)

StorageGetStats(s, dir, rangeType, date, localDate, timeNow) ==
    LET range == GetDateRange(dir, rangeType, date, localDate)
    IN  IF range.err # nil THEN [err |-> range.err, stats |-> ZeroStats]
        ELSE [err |-> nil,
              stats |-> RangeStatsLoop(s, dir, range.startDate, range.endDate, timeNow)]

(***************************************************************************)
(* Storage.GetDetailedStats(rangeType).  A Go map is a function whose      *)
(* domain is the set of keys written so far.                               *)
(***************************************************************************)
EmptyMap == [key \in {} |-> 0]

Bump(map, key, by) ==
    IF key \in DOMAIN map THEN [map EXCEPT ![key] = @ + by] ELSE map @@ (key :> by)

\* the pairs of the legacy interruption list of one session
RECURSIVE DetailedPairLoop(_, _, _)
DetailedPairLoop(acc, interruptions, i) ==
    IF i > Len(interruptions) THEN acc
    ELSE IF i + 1 <= Len(interruptions)
         THEN LET interrupt == interruptions[i]
                  returnEntry == interruptions[i + 1]
                  interruptDuration == returnEntry.StartTime - interrupt.StartTime
                  tag == IF interrupt.Tag = TagUnset THEN TagOther ELSE interrupt.Tag
              IN  DetailedPairLoop(
                      [acc EXCEPT
                          !.interruptionTime = @ + interruptDuration,
                          !.stats.InterruptionsByTag = Bump(@, tag, 1),
                          !.stats.InterruptionDurationByTag = Bump(@, tag, interruptDuration),
                          !.stats.TotalInterruptions = @ + 1],
                      interruptions, i + 2)
         ELSE DetailedPairLoop(acc, interruptions, i + 2)

RECURSIVE DetailedSessionsLoop(_, _, _)
DetailedSessionsLoop(acc, sessions, k) ==
    IF k > Len(sessions) THEN acc
    ELSE LET session == sessions[k]
         IN  IF session.Start # NoEntry /\ session.End # NoEntry
             THEN LET sessionDuration == session.End.StartTime - session.Start.StartTime
                      paired == DetailedPairLoop([acc EXCEPT !.interruptionTime = 0],
                                                 session.Interruptions, 1)
                      pureWorkTime == sessionDuration - paired.interruptionTime
                      hour == (session.Start.StartTime \div 60) % 24
                  IN  DetailedSessionsLoop(
                          [paired EXCEPT
                              !.totalDuration = @ + pureWorkTime,
                              !.stats.TotalSessions = @ + 1,
                              !.stats.LongestSession = Max(@, pureWorkTime),
                              !.stats.HourlyProductivity = Bump(@, hour, pureWorkTime)],
                          sessions, k + 1)
             ELSE DetailedSessionsLoop(acc, sessions, k + 1)

RECURSIVE DetailedDaysLoop(_, _, _, _, _, _)
DetailedDaysLoop(acc, s, dir, d, endDate, timeNow) ==
    IF d > endDate THEN acc
    ELSE LET loaded == LoadDailySessions(s, dir, d)
             dailySessions == loaded.sessions
             workDuration == GetStats(dailySessions.Sessions, timeNow).work
             counted == [acc EXCEPT
                            !.stats.DailyWorkDurations = d :> workDuration @@ @,
                            !.stats.TotalWorkDuration = @ + workDuration]
         IN  IF loaded.err # nil
             THEN DetailedDaysLoop(acc, s, dir, d + 1, endDate, timeNow)
             ELSE DetailedDaysLoop(DetailedSessionsLoop(counted, dailySessions.Sessions, 1),
                                   s, dir, d + 1, endDate, timeNow)

NewDetailedStats(startDate, endDate) ==
    [StartDate |-> startDate,
     EndDate |-> endDate,
     TotalWorkDuration |-> 0,
     TotalInterruptions |-> 0,
     InterruptionsByTag |-> EmptyMap,
     InterruptionDurationByTag |-> EmptyMap,
     DailyWorkDurations |-> EmptyMap,
     HourlyProductivity |-> EmptyMap,
     LongestSession |-> 0,
     AverageSessionTime |-> 0,
     TotalSessions |-> 0]

GetDetailedStats(s, dir, rangeType, date, localDate, timeNow) ==
    LET range == GetDateRange(dir, rangeType, date, localDate)
        looped == DetailedDaysLoop(
                      [stats |-> NewDetailedStats(range.startDate, range.endDate),
                       totalDuration |-> 0, interruptionTime |-> 0],
                      s, dir, range.startDate, range.endDate, timeNow)
    IN  IF range.err # nil THEN [err |-> range.err, stats |-> NewDetailedStats(0, 0)]
        ELSE [err |-> nil,
              stats |-> IF looped.stats.TotalSessions > 0
                        THEN [looped.stats EXCEPT
                                 !.AverageSessionTime =
                                     GoDiv(looped.totalDuration, looped.stats.TotalSessions)]
                        ELSE looped.stats]

(***************************************************************************)
(* Storage.ExportData / Storage.ImportData.  The export document is a JSON *)
(* object with one member per day; the key of a member is the text of a    *)
(* date, which time.Parse("2006-01-02") either reads as a date or rejects. *)
(***************************************************************************)
DateKey(date) == [valid |-> TRUE, date |-> date]          \* day.Format("2006-01-02")

MalformedKey == [valid |-> FALSE, date |-> 0]

RECURSIVE ExportLoop(_, _, _, _)
\* the loop over the available days, in the order of the directory listing
ExportLoop(s, dir, days, allData) ==
    IF days = {} THEN [err |-> nil, allData |-> allData]
    ELSE LET day == Earliest(days)
             loaded == LoadDailySessions(s, dir, day)
         IN  IF loaded.err # nil
             THEN [err |-> "failed to load sessions for day", allData |-> allData]
             ELSE ExportLoop(s, dir, days \ {day},
                      allData \cup {[key |-> DateKey(day),
                                     value |-> MarshalDailySessions(loaded.sessions)]})

\* what the call returns and the file it writes at outputPath (NoFile: none)
ExportData(s, dir) ==
    LET looped == ExportLoop(s, dir, ListAvailableDays(dir), {})
    IN  IF looped.err # nil THEN [err |-> looped.err, written |-> NoFile]
        ELSE [err |-> nil,
              written |-> Bytes([members |-> looped.allData],
                                EmptyDayTextSize * Cardinality(looped.allData) + 2)]

RECURSIVE ImportLoop(_, _, _, _, _)
\* the loop over the members of the document, in the order the map yields them
ImportLoop(s, dir, members, k, overwrite) ==
    IF k > Len(members) THEN [err |-> nil, dir |-> dir]
    ELSE LET dateStr == members[k].key
             sessions == UnmarshalDailySessions(members[k].value)
         IN  IF ~dateStr.valid THEN [err |-> "invalid date format in import", dir |-> dir]
             ELSE IF ~overwrite /\ FileAt(dir, dateStr.date) # NoFile
                  THEN ImportLoop(s, dir, members, k + 1, overwrite)
                  ELSE ImportLoop(s,
                           SaveDailySessions(s, dir, [sessions EXCEPT !.Date = dateStr.date]),
                           members, k + 1, overwrite)

\* the orders in which a Go map may yield its members
MapOrders(S) ==
    {order \in [1..Cardinality(S) -> S] :
        \A a, b \in 1..Cardinality(S) : a # b => order[a] # order[b]}

\* variant: the overwrite flag is not looked at
ImportData_IgnoresOverwrite(s, dir, input, overwrite, order) ==
    IF input = NoFile THEN [err |-> "failed to read import file", dir |-> dir]
    ELSE IF ~(input.key = NoKey /\ "members" \in DOMAIN input.content)
         THEN [err |-> "failed to unmarshal import data", dir |-> dir]
         ELSE ImportLoop(s, dir, order, 1, TRUE)

\* input: the bytes of the file at inputPath (NoFile: no such file); order:
\* one of MapOrders of the members of the document
ImportData(s, dir, input, overwrite, order) ==
    IF input = NoFile THEN [err |-> "failed to read import file", dir |-> dir]
    ELSE IF ~(input.key = NoKey /\ "members" \in DOMAIN input.content)
         THEN [err |-> "failed to unmarshal import data", dir |-> dir]
         ELSE ImportLoop(s, dir, order, 1, overwrite)

\* the storage of the UI: no encryption, no backups
PlainStorage == [encryptionEnabled |-> FALSE, encryptionKey |-> NoKey, backupEnabled |-> FALSE]

(***************************************************************************)
(* showStats(rangeType): the totals of the stats view.  ret holds what the *)
(* view shows while the stats page is in front.                            *)
(***************************************************************************)
\* the pairs of a legacy interruption list, a trailing open interruption
\* included, as calculateSessionStats charges them: a complete pair with ten
\* minutes of recovery, an open interruption up to now
RECURSIVE SessionPairLoop(_, _, _)
SessionPairLoop(interruptions, i, timeNow) ==
    IF i > Len(interruptions) THEN [duration |-> 0, count |-> 0]
    ELSE LET rest == SessionPairLoop(interruptions, i + 2, timeNow)
             span == IF i + 1 <= Len(interruptions)
                     THEN interruptions[i + 1].StartTime - interruptions[i].StartTime
                          + RecoveryMinutes
                     ELSE timeNow - interruptions[i].StartTime
         IN  [duration |-> span + rest.duration, count |-> 1 + rest.count]

calculateSessionStats(session, timeNow) ==
    IF session.Start = NoEntry THEN ZeroStats
    ELSE LET endTime == IF session.End # NoEntry THEN session.End.StartTime ELSE timeNow
             totalDuration == endTime - session.Start.StartTime
             pairs == SessionPairLoop(session.Interruptions, 1, timeNow)
             interruptionDuration ==
                 IF pairs.duration > totalDuration THEN totalDuration ELSE pairs.duration
         IN  [work |-> totalDuration - interruptionDuration,
              interruption |-> interruptionDuration,
              count |-> pairs.count]

\* the totals showStats puts into the view
ShownTotals(dir, rangeType, localDate) ==
    LET saved == StorageGetStats(storage, dir, rangeType, today, localDate, now)
    IN  IF saved.err # nil THEN [op |-> "showStats", err |-> saved.err, totals |-> ZeroStats]
        ELSE [op |-> "showStats", err |-> nil,
              totals |-> IF activeSession # 0
                         THEN AddStats(saved.stats,
                                       calculateSessionStats(currentDay.Sessions[activeSession], now))
                         ELSE saved.stats]

\* 'v' on the main page shows the day; d, w, m, y, a on the stats page show
\* that range
ShowStats(rangeType, localDate) ==
    /\ running
    /\ \/ page = "main" /\ rangeType = "day"
       \/ page = "stats"
    /\ page' = "stats"
    /\ ret' = ShownTotals(store, rangeType, localDate)
    /\ UNCHANGED <<store, today, now, running, currentDay, activeSession, pending, tableRows,
                   storage, arg>>

\* 'b' or 'v' on the stats page
CloseStats ==
    /\ running /\ page = "stats"
    /\ page' = "main"
    /\ ret' = NoCall
    /\ UNCHANGED <<store, today, now, running, currentDay, activeSession, pending, tableRows,
                   storage, arg>>

Init ==
    /\ storage = PlainStorage
    /\ store = EmptyDir
    /\ today = 1
    /\ now = 1
    /\ running = TRUE
    /\ currentDay = [Date |-> 1, Sessions |-> <<>>]
    /\ activeSession = 0
    /\ page = "main"
    /\ pending = NoPending
    /\ tableRows = 1
    /\ arg = <<>>
    /\ ret = NoCall

Next ==
    \/ StartSession
    \/ SubmitDescription
    \/ CancelDialog
    \/ EndSession
    \/ InterruptSession
    \/ \E button \in 1..4 : SelectTag(button)
    \/ SubmitInterruptionDescription
    \/ BackFromInterruption
    \/ \E row \in 0..tableRows : DeleteSelectedSession(row)
    \/ \E row \in 0..tableRows : \E order \in SortedOrders(currentDay.Sessions) :
           ResumeSession(row, order)
    \/ \E confirmed \in BOOLEAN : ConfirmDialog(confirmed)
    \/ Quit
    \/ Midnight
    \/ NewTimerUI(2)
    \/ \E date \in Days : \E i, j \in 0..(MaxSessions + 1) : MergeSessions(date, i, j)

Spec == Init /\ [][Next]_vars

\* the session commands together with the statistics page
NextView ==
    \/ StartSession
    \/ SubmitDescription
    \/ CancelDialog
    \/ EndSession
    \/ InterruptSession
    \/ \E button \in 1..4 : SelectTag(button)
    \/ SubmitInterruptionDescription
    \/ BackFromInterruption
    \/ \E rangeType \in RangeTypes \ {"quarter"} : \E localDate \in LocalDates :
           ShowStats(rangeType, localDate)
    \/ CloseStats
    \/ Quit

SpecView == Init /\ [][NextView]_vars

(***************************************************************************)
(* Properties of the session commands and of merge.                        *)
(***************************************************************************)
\* every session held anywhere: in the memory of the running UI or in a day file
\* what the day file of a date holds
StoredSessions(d) == LoadDailySessions(storage, store, d).sessions.Sessions

AllSessions ==
    {currentDay.Sessions[k] : k \in 1..Len(currentDay.Sessions)}
    \cup UNION {{StoredSessions(d)[k] : k \in 1..Len(StoredSessions(d))} : d \in Days}

Alternates(interruptions) ==
    \A k \in 1..Len(interruptions) :
        interruptions[k].Type =
            IF k % 2 = 1 THEN EntryTypeInterruption ELSE EntryTypeReturn

RECURSIVE ConcatInterruptions(_, _)
ConcatInterruptions(subSessions, k) ==
    IF k > Len(subSessions) THEN <<>>
    ELSE subSessions[k].Interruptions \o ConcatInterruptions(subSessions, k + 1)

ActiveCount(sessions) == Cardinality({k \in 1..Len(sessions) : IsActive(sessions[k])})

\* C4: the legacy interruption list of every session and the list of each of
\* its sub-sessions alternate INTERRUPTION, RETURN, INTERRUPTION, ... (first,
\* third, ... entry an interruption; second, fourth, ... a return).
C4_Alternation ==
    \A session \in AllSessions :
        /\ Alternates(session.Interruptions)
        /\ \A k \in 1..Len(session.SubSessions) :
               Alternates(session.SubSessions[k].Interruptions)

\* C5: at most one session of the current day is active and activeSession
\* refers to exactly that session (nil when there is none); the dialogs of
\* start and resume are only ever open while no session is active.
C5_SingleActive ==
    running =>
        /\ ActiveCount(currentDay.Sessions) <= 1
        /\ activeSession \in 0..Len(currentDay.Sessions)
        /\ activeSession = 0 => ActiveCount(currentDay.Sessions) = 0
        /\ activeSession # 0 => IsActive(currentDay.Sessions[activeSession])
        /\ (page = "input" /\ pending.kind = "start") => activeSession = 0
        /\ (page = "confirm" /\ pending.kind = "resume") => activeSession = 0

\* a resumed session is active next to a completed one
C5_Witness ==
    /\ running
    /\ activeSession # 0
    /\ Len(currentDay.Sessions) >= 2
    /\ Len(currentDay.Sessions[activeSession].SubSessions) >= 2
    /\ ActiveCount(currentDay.Sessions) = 1

\* C6: the legacy interruption list of every session equals the
\* concatenation, in order, of the interruption lists of its sub-sessions.
C6_LockStep ==
    \A session \in AllSessions :
        session.Interruptions = ConcatInterruptions(session.SubSessions, 1)

(***************************************************************************)
(* Calls of the pure functions of the accounting engine on drawn inputs.   *)
(* A drawn span is a start, an optional end and an interruption list whose *)
(* timestamps increase, as the commands record them; a session is a legacy *)
(* session (no sub-sessions), or has one or two sub-sessions with the      *)
(* legacy list mirroring them.  Tags are drawn from a known tag, the unset *)
(* tag and a custom label.                                                 *)
(***************************************************************************)
TagInputs == {TagCall, TagUnset, TagCustom}

SortedPoints(S) ==
    CHOOSE p \in [1..Cardinality(S) -> S] :
        \A a, b \in 1..Cardinality(S) : a < b => p[a] < p[b]

InterruptionList(points, first, last, tagOf) ==
    [k \in 1..(last - first + 1) |->
        IF k % 2 = 1
        THEN NewInterruptionEntry(tagOf[(k + 1) \div 2], points[first + k - 1])
        ELSE NewTimeEntry(EntryTypeReturn, points[first + k - 1])]

SpanOf(S, hasEnd, tagOf) ==
    LET points == SortedPoints(S)
        n == Cardinality(S)
    IN  [Start |-> NewTimeEntry(EntryTypeStart, points[1]),
         End |-> IF hasEnd THEN NewTimeEntry(EntryTypeEnd, points[n]) ELSE NoEntry,
         Interruptions |-> InterruptionList(points, 2, IF hasEnd THEN n - 1 ELSE n, tagOf)]

SpansOver(limit) ==
    {SpanOf(S, hasEnd, tagOf) :
        S \in (SUBSET (0..limit)) \ {{}},
        hasEnd \in BOOLEAN,
        tagOf \in [1..((limit + 1) \div 2) -> TagInputs]}

ShiftEntry(entry, by) ==
    IF entry = NoEntry THEN NoEntry ELSE [entry EXCEPT !.StartTime = @ + by]

ShiftSpan(span, by) ==
    [Start |-> ShiftEntry(span.Start, by),
     End |-> ShiftEntry(span.End, by),
     Interruptions |-> [k \in 1..Len(span.Interruptions) |->
                           ShiftEntry(span.Interruptions[k], by)]]

LegacyInput(span) ==
    [ID |-> <<"sess", span.Start.StartTime>>, Start |-> span.Start, End |-> span.End,
     SubSessions |-> <<>>, Interruptions |-> span.Interruptions]

OneSubInput(span) ==
    [ID |-> <<"sess", span.Start.StartTime>>, Start |-> span.Start, End |-> span.End,
     SubSessions |-> <<span>>, Interruptions |-> span.Interruptions]

TwoSubInput(first, second) ==
    [ID |-> <<"sess", first.Start.StartTime>>, Start |-> first.Start, End |-> second.End,
     SubSessions |-> <<first, second>>,
     Interruptions |-> first.Interruptions \o second.Interruptions]

SecondSpans == {ShiftSpan(span, MaxT + 1) : span \in SpansOver(MaxSecond - 1)}

SessionInputs ==
    {LegacyInput(span) : span \in SpansOver(MaxT)}
    \cup {OneSubInput(span) : span \in SpansOver(MaxT)}
    \cup {TwoSubInput(first, second) :
            first \in {span \in SpansOver(MaxSecond - 1) :
                          span.End # NoEntry /\ ~Interrupted(span.Interruptions)},
            second \in SecondSpans}

SecondSessionInputs ==
    {LegacyInput(span) : span \in SecondSpans} \cup {OneSubInput(span) : span \in SecondSpans}

DayInputs ==
    {<<>>}
    \cup {<<session>> : session \in SessionInputs}
    \cup {<<session, second>> : session \in SessionInputs, second \in SecondSessionInputs}

\* the clock of a call is later than every drawn timestamp
CallTime == 2 * MaxT + 2

IdleUI ==
    /\ storage = PlainStorage
    /\ store = EmptyDir
    /\ today = 1
    /\ running = FALSE
    /\ currentDay = [Date |-> 1, Sessions |-> <<>>]
    /\ activeSession = 0
    /\ page = "main"
    /\ pending = NoPending
    /\ tableRows = 1

InitStats ==
    /\ IdleUI
    /\ now = CallTime
    /\ arg \in DayInputs
    /\ ret = NoCall

CallGetStats ==
    /\ ret = NoCall
    /\ ret' = [op |-> "GetStats", stats |-> GetStats(arg, now)]
    /\ UNCHANGED <<storage, store, today, now, uiVars, arg>>

CallGetInterruptionTagStats ==
    /\ ret = NoCall
    /\ ret' = [op |-> "TagStats", result |-> GetInterruptionTagStats(arg)]
    /\ UNCHANGED <<storage, store, today, now, uiVars, arg>>

\* resumeSession on the drawn day, confirmed: no session is active, the
\* selected one has an end
CallResumeSession(index) ==
    /\ ret = NoCall
    /\ index \in 1..Len(arg)
    /\ \A k \in 1..Len(arg) : ~IsActive(arg[k])
    /\ ret' = [op |-> "resumeSession", index |-> index,
               sessions |-> [arg EXCEPT ![index] =
                                ResumeUpdate(@, NewTimeEntry(EntryTypeStart, now))]]
    /\ UNCHANGED <<storage, store, today, now, uiVars, arg>>

\* Storage.MergeSessions on a directory in which the drawn day is the file
\* of today; ret keeps the day as loaded before and after the call
CallMergeSessionsOfDay(session1Index, session2Index) ==
    /\ ret = NoCall
    /\ Len(arg) = 2
    /\ LET dir == SaveDailySessions(storage, store, [Date |-> today, Sessions |-> arg])
           merged == MergeSessionsOn(storage, dir, today, session1Index, session2Index)
       IN  /\ store' = merged.dir
           /\ ret' = [op |-> "MergeSessions", err |-> merged.err,
                      session1Index |-> session1Index, session2Index |-> session2Index,
                      before |-> LoadDailySessions(storage, dir, today).sessions.Sessions,
                      after |-> LoadDailySessions(storage, merged.dir, today).sessions.Sessions]
    /\ UNCHANGED <<storage, today, now, uiVars, arg>>

NextStats ==
    \/ CallGetStats
    \/ CallGetInterruptionTagStats
    \/ \E index \in 1..2 : CallResumeSession(index)
    \/ \E session1Index, session2Index \in 1..2 :
           session1Index # session2Index
           /\ CallMergeSessionsOfDay(session1Index, session2Index)

SpecStats == InitStats /\ [][NextStats]_vars

DetailedStatsInputs ==
    [TotalWorkDuration : {0, 30, 60},
     TotalSessions : 0..MaxScoreSessions,
     TotalInterruptions : 0..MaxScoreInterruptions,
     InterruptionDurationByTag : [{TagCall, TagOther} -> {0, 15}]]

InitScore ==
    /\ IdleUI
    /\ now = CallTime
    /\ arg \in DetailedStatsInputs
    /\ ret = NoCall

CallCalculateProductivityScore ==
    /\ ret = NoCall
    /\ ret' = [op |-> "Score", score |-> CalculateProductivityScore(arg)]
    /\ UNCHANGED <<storage, store, today, now, uiVars, arg>>

NextScore == CallCalculateProductivityScore

SpecScore == InitScore /\ [][NextScore]_vars

(***************************************************************************)
(* Properties of the accounting engine, stated over the complete           *)
(* (interruption, return) pairs of a list: pair k is entries 2k-1 and 2k.  *)
(***************************************************************************)
RECURSIVE SeqSum(_)
SeqSum(numbers) ==
    IF Len(numbers) = 0 THEN 0 ELSE numbers[1] + SeqSum(Tail(numbers))

CompletePairs(interruptions) == 1..(Len(interruptions) \div 2)

PairSpan(interruptions, k) ==
    interruptions[2 * k].StartTime - interruptions[2 * k - 1].StartTime

PairSpanSum(interruptions) ==
    SeqSum([k \in CompletePairs(interruptions) |-> PairSpan(interruptions, k)])

EndOrNow(item, timeNow) == IF item.End = NoEntry THEN timeNow ELSE item.End.StartTime

\* what one work period (a sub-session, or a legacy session) accounts for
PeriodStats(item, timeNow) ==
    [work |-> EndOrNow(item, timeNow) - item.Start.StartTime
              - PairSpanSum(item.Interruptions),
     interruption |-> PairSpanSum(item.Interruptions),
     count |-> Cardinality(CompletePairs(item.Interruptions))]

SumStats(statsSeq) ==
    [work |-> SeqSum([k \in 1..Len(statsSeq) |-> statsSeq[k].work]),
     interruption |-> SeqSum([k \in 1..Len(statsSeq) |-> statsSeq[k].interruption]),
     count |-> SeqSum([k \in 1..Len(statsSeq) |-> statsSeq[k].count])]

SubSessionSum(session, timeNow) ==
    SumStats([k \in 1..Len(session.SubSessions) |->
                 PeriodStats(session.SubSessions[k], timeNow)])

HasSubSessions(session) == Len(session.SubSessions) > 0

CompletedLegacy(session) == ~HasSubSessions(session) /\ session.End # NoEntry

\* C1: a session that has sub-sessions is accounted as the sum over its
\* sub-sessions of (end, or now when there is none, minus start) minus the
\* spans of the complete pairs of that sub-session; interruption time is the
\* sum of those spans and the count the number of complete pairs.  A trailing
\* unmatched interruption adds nothing.  (Sessions without sub-sessions
\* contribute what the legacy branch computes.)
C1_SubSessionAccounting ==
    ret.op = "GetStats" =>
        ret.stats = SumStats([k \in 1..Len(arg) |->
                        IF HasSubSessions(arg[k])
                        THEN SubSessionSum(arg[k], now)
                        ELSE LegacySessionStats(arg[k])])

\* a session whose second sub-session is active with a trailing unmatched
\* interruption, next to an active sub-session with a complete pair
C1_Witness ==
    /\ ret.op = "GetStats"
    /\ Len(arg) = 2
    /\ Len(arg[1].SubSessions) = 2
    /\ arg[1].SubSessions[2].End = NoEntry
    /\ Len(arg[1].SubSessions[2].Interruptions) = 1
    /\ Len(arg[2].SubSessions) = 1
    /\ arg[2].SubSessions[1].End = NoEntry
    /\ Len(arg[2].SubSessions[1].Interruptions) = 2
    /\ ret.stats.count = 1
    /\ ret.stats.interruption > 0

\* C2: for a day of completed sessions without sub-sessions, work is the sum
\* of (end - start - spans of the complete pairs), interruption the sum of
\* those spans and count the number of complete pairs; no sessions give
\* (0, 0, 0) and a session without interruptions counts its full span.
C2_LegacyAccounting ==
    (ret.op = "GetStats" /\ \A k \in 1..Len(arg) : CompletedLegacy(arg[k])) =>
        /\ ret.stats = SumStats([k \in 1..Len(arg) |-> PeriodStats(arg[k], now)])
        /\ Len(arg) = 0 => ret.stats = ZeroStats
        /\ (\A k \in 1..Len(arg) : Len(arg[k].Interruptions) = 0) =>
               /\ ret.stats.work =
                      SeqSum([k \in 1..Len(arg) |->
                                 arg[k].End.StartTime - arg[k].Start.StartTime])
               /\ ret.stats.interruption = 0
               /\ ret.stats.count = 0

\* two completed legacy sessions, one of them with a complete pair
C2_Witness ==
    /\ ret.op = "GetStats"
    /\ Len(arg) = 2
    /\ \A k \in 1..Len(arg) : CompletedLegacy(arg[k])
    /\ \E k \in 1..Len(arg) : Len(arg[k].Interruptions) = 2
    /\ ret.stats.count = 1
    /\ ret.stats.work > 0

\* C3: every active item is accounted from its start up to now: an active
\* sub-session and equally an active session that has no sub-sessions.
C3_ActiveUsesNow ==
    ret.op = "GetStats" =>
        ret.stats = SumStats([k \in 1..Len(arg) |->
                        IF HasSubSessions(arg[k])
                        THEN SubSessionSum(arg[k], now)
                        ELSE PeriodStats(arg[k], now)])

\* the complete pairs of a day, as (session, pair) positions
DayPairs(sessions) ==
    UNION {{<<k, j>> : j \in CompletePairs(sessions[k].Interruptions)} : k \in 1..Len(sessions)}

PairTag(sessions, pair) ==
    LET tag == sessions[pair[1]].Interruptions[2 * pair[2] - 1].Tag
    IN  IF tag = TagUnset THEN TagOther ELSE tag

PairsOfTag(sessions, tag) == {pair \in DayPairs(sessions) : PairTag(sessions, pair) = tag}

RECURSIVE PairSetSum(_, _)
PairSetSum(sessions, pairs) ==
    IF pairs = {} THEN 0
    ELSE LET pair == CHOOSE x \in pairs : TRUE
         IN  PairSpan(sessions[pair[1]].Interruptions, pair[2])
             + PairSetSum(sessions, pairs \ {pair})

HasCustomPair(sessions) ==
    \E pair \in DayPairs(sessions) : PairTag(sessions, pair) \notin KnownTags

C9_CustomTagCounted ==
    (ret.op = "TagStats" /\ HasCustomPair(arg)) =>
        /\ ~ret.result.panicked
        /\ KnownTags \subseteq DOMAIN ret.result.stats
        /\ \A pair \in DayPairs(arg) :
               /\ PairTag(arg, pair) \in DOMAIN ret.result.stats
               /\ ret.result.stats[PairTag(arg, pair)].Count >= 1

\* C10: the productivity score lies within [0, 100], and is 0 when the
\* total work duration is 0.
C10_ScoreInRange ==
    ret.op = "Score" =>
        /\ ret.score.kind = "finite"
        /\ ret.score.num >= 0
        /\ ret.score.num <= 100 * ret.score.den
        /\ arg.TotalWorkDuration = 0 => ret.score.num = 0

(***************************************************************************)
(* The storage calls on a drawn data directory.  The directory holds, per  *)
(* date, no file, a file this storage wrote, such a file with a byte       *)
(* changed, a file written by a storage with another key, or a file a      *)
(* release before schema versions wrote.  One call is made on it; a load   *)
(* may also follow a save.  arg keeps the call (with the directory it      *)
(* found), ret what it returned.                                           *)
(***************************************************************************)
MaxIndex == 4       \* session positions 0..MaxIndex are tried by merge and delete
MaxPayload == 2     \* longest payload handed to encrypt, in bytes

StorageInputs ==
    {[encryptionEnabled |-> FALSE, encryptionKey |-> NoKey, backupEnabled |-> b] :
        b \in BOOLEAN}
    \cup {[encryptionEnabled |-> TRUE, encryptionKey |-> 1, backupEnabled |-> b] :
        b \in BOOLEAN}

ForeignStorage == [encryptionEnabled |-> TRUE, encryptionKey |-> 2, backupEnabled |-> FALSE]

Described(entry, description) == [entry EXCEPT !.Description = description]

\* 1..4, interrupted by a call from 2 to 3
SessionA ==
    LET start == Described(NewTimeEntry(EntryTypeStart, 1), "report")
        interruptions == <<Described(NewInterruptionEntry(TagCall, 2), "phone"),
                           NewTimeEntry(EntryTypeReturn, 3)>>
        end == NewTimeEntry(EntryTypeEnd, 4)
    IN  [ID |-> <<"sess", 1>>, Start |-> start, End |-> end,
         SubSessions |-> <<[Start |-> start, End |-> end, Interruptions |-> interruptions]>>,
         Interruptions |-> interruptions]

\* 4..6, in the legacy shape and without an id
SessionB ==
    [ID |-> NoID,
     Start |-> Described(NewTimeEntry(EntryTypeStart, 4), "mail"),
     End |-> NewTimeEntry(EntryTypeEnd, 6),
     SubSessions |-> <<>>, Interruptions |-> <<>>]

\* active since 5, interrupted since 6
SessionC ==
    LET start == NewTimeEntry(EntryTypeStart, 5)
        interruptions == <<NewInterruptionEntry(TagUnset, 6)>>
    IN  [ID |-> <<"sess", 5>>, Start |-> start, End |-> NoEntry,
         SubSessions |-> <<[Start |-> start, End |-> NoEntry, Interruptions |-> interruptions]>>,
         Interruptions |-> interruptions]

\* 7..9, in the legacy shape, interrupted by a meeting from 7 to 8
SessionD ==
    [ID |-> <<"sess", 7>>,
     Start |-> NewTimeEntry(EntryTypeStart, 7),
     End |-> NewTimeEntry(EntryTypeEnd, 9),
     SubSessions |-> <<>>,
     Interruptions |-> <<NewInterruptionEntry(TagMeeting, 7), NewTimeEntry(EntryTypeReturn, 8)>>]

SessionLists ==
    {<<>>, <<SessionA>>, <<SessionA, SessionB>>, <<SessionB, SessionC>>,
     <<SessionC, SessionA, SessionD>>}

DailySessionsInputs == [Date : Days, Sessions : SessionLists]

\* the bytes SaveDailySessions of storage s writes for a day
Written(s, sessions) == SaveDailySessions(s, EmptyDir, sessions).files[sessions.Date]

\* the bytes after a byte of them was changed
Altered(data) ==
    IF data.key = NoKey THEN [data EXCEPT !.content = [raw |-> <<>>]]
    ELSE [data EXCEPT !.intact = FALSE]

\* the bytes cut to their first n bytes
Truncated(data, n) ==
    IF data.key = NoKey
    THEN [data EXCEPT !.size = n,
                      !.content = [raw |-> IF "raw" \in DOMAIN @ THEN SubSeq(@.raw, 1, n) ELSE <<>>]]
    ELSE [data EXCEPT !.size = n, !.intact = FALSE]

\* the bytes a release without schema versions wrote: no schema_version member
WrittenBefore(s, sessions) ==
    LET data == JSONText(MarshalDailySessions(sessions))
    IN  IF s.encryptionEnabled THEN encrypt(s, data).data ELSE data

FileInputs(s, date) ==
    {NoFile,
     Written(s, [Date |-> date, Sessions |-> <<SessionB, SessionC>>]),
     Written(s, [Date |-> date, Sessions |-> <<SessionC, SessionA, SessionD>>]),
     Altered(Written(s, [Date |-> date, Sessions |-> <<SessionA>>])),
     Written(ForeignStorage, [Date |-> date, Sessions |-> <<SessionA>>]),
     WrittenBefore(s, [Date |-> date, Sessions |-> <<SessionB, SessionA>>])}

\* the backups directory of a storage that takes backups: not writable,
\* empty, or with a backup of day 1 taken earlier in the second of the call
BackupInputs(s) ==
    IF s.backupEnabled
    THEN {[backups |-> {}, backupDir |-> FALSE],
          [backups |-> {}, backupDir |-> TRUE],
          [backups |-> {[date |-> 1, timestamp |-> CallTime,
                         data |-> Written(s, [Date |-> 1, Sessions |-> <<>>])]},
           backupDir |-> TRUE]}
    ELSE {[backups |-> {}, backupDir |-> TRUE]}

DirInputs(s) ==
    {[files |-> files, backups |-> b.backups, backupDir |-> b.backupDir] :
        files \in {f \in [Days -> UNION {FileInputs(s, d) : d \in Days}] :
                      \A d \in Days : f[d] \in FileInputs(s, d)},
        b \in BackupInputs(s)}

ExportDocument(members) == Bytes([members |-> members], EmptyDayTextSize * Cardinality(members) + 2)

ImportInputs ==
    {NoFile,
     Bytes([raw |-> <<>>], 0),
     ExportDocument({[key |-> DateKey(1),
                      value |-> MarshalDailySessions([Date |-> 2, Sessions |-> <<SessionA>>])]}),
     ExportDocument({[key |-> DateKey(1),
                      value |-> MarshalDailySessions([Date |-> 1, Sessions |-> <<SessionD>>])],
                     [key |-> DateKey(2),
                      value |-> MarshalDailySessions([Date |-> 2, Sessions |-> <<SessionA, SessionB>>])]}),
     ExportDocument({[key |-> MalformedKey,
                      value |-> MarshalDailySessions([Date |-> 1, Sessions |-> <<SessionB>>])],
                     [key |-> DateKey(2),
                      value |-> MarshalDailySessions([Date |-> 2, Sessions |-> <<SessionD>>])]})}

ImportOrders(input) ==
    IF input # NoFile /\ input.key = NoKey /\ "members" \in DOMAIN input.content
    THEN MapOrders(input.content.members)
    ELSE {<<>>}

RangeTypeInputs == RangeTypes \cup {"fortnight"}

InitStorage ==
    /\ today = MaxDay
    /\ now = CallTime
    /\ storage \in StorageInputs
    /\ store \in DirInputs(storage)
    /\ running = FALSE
    /\ currentDay = [Date |-> 1, Sessions |-> <<>>]
    /\ activeSession = 0
    /\ page = "main"
    /\ pending = NoPending
    /\ tableRows = 1
    /\ arg = NoCall
    /\ ret = NoCall

idleVars == <<storage, today, now, uiVars>>

CallSaveDailySessions(sessions) ==
    /\ ret = NoCall
    /\ arg' = [op |-> "SaveDailySessions", sessions |-> sessions, dir |-> store]
    /\ store' = SaveDailySessions(storage, store, sessions)
    /\ ret' = [op |-> "SaveDailySessions", err |-> nil]
    /\ UNCHANGED idleVars

CallLoadDailySessions(date) ==
    /\ ret = NoCall \/ ret.op = "SaveDailySessions"
    /\ arg' = [op |-> "LoadDailySessions", date |-> date, dir |-> store, after |-> arg]
    /\ LET loaded == LoadDailySessions(storage, store, date)
       IN  ret' = [op |-> "LoadDailySessions", err |-> loaded.err, sessions |-> loaded.sessions]
    /\ UNCHANGED <<store, idleVars>>

CallMergeSessions(date, session1Index, session2Index) ==
    /\ ret = NoCall
    /\ arg' = [op |-> "MergeSessions", date |-> date, session1Index |-> session1Index,
               session2Index |-> session2Index, dir |-> store]
    /\ LET merged == MergeSessionsOn(storage, store, date, session1Index, session2Index)
       IN  /\ store' = merged.dir
           /\ ret' = [op |-> "MergeSessions", err |-> merged.err]
    /\ UNCHANGED idleVars

CallSecureDelete(date, sessionIndex) ==
    /\ ret = NoCall
    /\ arg' = [op |-> "SecureDelete", date |-> date, sessionIndex |-> sessionIndex,
               dir |-> store]
    /\ LET deleted == SecureDelete(storage, store, date, sessionIndex)
       IN  /\ store' = deleted.dir
           /\ ret' = [op |-> "SecureDelete", err |-> deleted.err]
    /\ UNCHANGED idleVars

CallGetDateRange(rangeType, localDate) ==
    /\ ret = NoCall
    /\ arg' = [op |-> "GetDateRange", rangeType |-> rangeType, localDate |-> localDate,
               dir |-> store]
    /\ LET range == GetDateRange(store, rangeType, today, localDate)
       IN  ret' = [op |-> "GetDateRange", err |-> range.err,
                   startDate |-> range.startDate, endDate |-> range.endDate]
    /\ UNCHANGED <<store, idleVars>>

CallStorageGetStats(rangeType, localDate) ==
    /\ ret = NoCall
    /\ arg' = [op |-> "GetStats", rangeType |-> rangeType, localDate |-> localDate,
               dir |-> store]
    /\ LET result == StorageGetStats(storage, store, rangeType, today, localDate, now)
       IN  ret' = [op |-> "GetStats", err |-> result.err, stats |-> result.stats]
    /\ UNCHANGED <<store, idleVars>>

CallGetDetailedStats(rangeType, localDate) ==
    /\ ret = NoCall
    /\ arg' = [op |-> "GetDetailedStats", rangeType |-> rangeType, localDate |-> localDate,
               dir |-> store]
    /\ LET result == GetDetailedStats(storage, store, rangeType, today, localDate, now)
       IN  ret' = [op |-> "GetDetailedStats", err |-> result.err, stats |-> result.stats]
    /\ UNCHANGED <<store, idleVars>>

CallExportData ==
    /\ ret = NoCall
    /\ arg' = [op |-> "ExportData", dir |-> store]
    /\ LET exported == ExportData(storage, store)
       IN  ret' = [op |-> "ExportData", err |-> exported.err, written |-> exported.written]
    /\ UNCHANGED <<store, idleVars>>

CallImportData(input, overwrite, order) ==
    /\ ret = NoCall
    /\ arg' = [op |-> "ImportData", input |-> input, overwrite |-> overwrite, dir |-> store]
    /\ LET imported == ImportData(storage, store, input, overwrite, order)
       IN  /\ store' = imported.dir
           /\ ret' = [op |-> "ImportData", err |-> imported.err]
    /\ UNCHANGED idleVars

\* payloads of 0..MaxPayload bytes
PayloadInputs ==
    {Bytes([raw |-> raw], Len(raw)) :
        raw \in UNION {[1..n -> {0, 1}] : n \in 0..MaxPayload}}

CallEncrypt(payload) ==
    /\ ret = NoCall
    /\ arg' = [op |-> "encrypt", payload |-> payload, s |-> storage]
    /\ LET encrypted == encrypt(storage, payload)
       IN  ret' = [op |-> "encrypt", err |-> encrypted.err, data |-> encrypted.data]
    /\ UNCHANGED <<store, idleVars>>

\* NewStorage: the process is started again with another configuration
NewStorage(s) ==
    /\ ret.op = "encrypt"
    /\ s # storage
    /\ storage' = s
    /\ UNCHANGED <<store, today, now, uiVars, arg, ret>>

\* what decrypt is handed after an encrypt: its output as it is, with a byte
\* changed, or cut short, and the payload itself, which was never encrypted
DecryptInputs(payload, encrypted) ==
    {encrypted, Altered(encrypted), payload}
    \cup {Truncated(encrypted, n) :
             n \in {0, NonceSize, NonceSize + 1, encrypted.size - 1} \cap 0..encrypted.size}

CallDecrypt ==
    /\ ret.op = "encrypt"
    /\ \E input \in DecryptInputs(arg.payload, ret.data) :
           /\ arg' = [op |-> "decrypt", input |-> input, after |-> arg, encrypted |-> ret.data]
           /\ LET decrypted == decrypt(storage, input)
              IN  ret' = [op |-> "decrypt", err |-> decrypted.err, data |-> decrypted.data]
    /\ UNCHANGED <<store, idleVars>>

NextStorage ==
    \/ \E payload \in PayloadInputs : CallEncrypt(payload)
    \/ \E s \in StorageInputs \cup {ForeignStorage} : NewStorage(s)
    \/ CallDecrypt
    \/ \E sessions \in DailySessionsInputs : CallSaveDailySessions(sessions)
    \/ \E date \in Days : CallLoadDailySessions(date)
    \/ \E date \in Days : \E i, j \in 0..MaxIndex : CallMergeSessions(date, i, j)
    \/ \E date \in Days : \E i \in 0..MaxIndex : CallSecureDelete(date, i)
    \/ \E rangeType \in RangeTypeInputs : \E localDate \in LocalDates :
           CallGetDateRange(rangeType, localDate)
    \/ \E rangeType \in RangeTypeInputs : \E localDate \in LocalDates :
           CallStorageGetStats(rangeType, localDate)
    \/ \E rangeType \in RangeTypeInputs : \E localDate \in LocalDates :
           CallGetDetailedStats(rangeType, localDate)
    \/ CallExportData
    \/ \E input \in ImportInputs : \E overwrite \in BOOLEAN : \E order \in ImportOrders(input) :
           CallImportData(input, overwrite, order)

SpecStorage == InitStorage /\ [][NextStorage]_vars

(***************************************************************************)
(* Properties of the storage calls.                                        *)
(***************************************************************************)
\* a load that directly follows a save of the same date on the same storage
LoadAfterSave ==
    /\ ret.op = "LoadDailySessions"
    /\ arg.after.op = "SaveDailySessions"
    /\ arg.date = arg.after.sessions.Date

\* C11: a load that follows a successful save of a day on the same storage,
\* with or without encryption, succeeds and returns the date and the sessions
\* that were saved, in order and with every entry, sub-session and
\* interruption as it was.
C11_SaveLoadRoundTrip ==
    LoadAfterSave => /\ ret.err = nil
                     /\ ret.sessions.Date = arg.after.sessions.Date
                     /\ ret.sessions.Sessions = arg.after.sessions.Sessions

\* an encrypting storage saved three sessions (one active, one with an id,
\* described and tagged entries) over a file that was there, and loaded them
C11_Witness ==
    /\ LoadAfterSave
    /\ storage.encryptionEnabled
    /\ FileAt(arg.after.dir, arg.date) # NoFile
    /\ ret.sessions.Sessions = <<SessionC, SessionA, SessionD>>

\* decrypt was handed what encrypt returned, on the storage that encrypted
DecryptOfEncrypted ==
    /\ ret.op = "decrypt"
    /\ arg.input = arg.encrypted
    /\ arg.after.s = storage

\* C12: on an encrypting storage decrypt(encrypt(payload)) is the payload,
\* for every payload and key; on a storage without encryption encrypt and
\* decrypt return what they were given.
C12_EncryptDecryptRoundTrip ==
    /\ DecryptOfEncrypted => ret.err = nil /\ ret.data = arg.after.payload
    /\ (ret.op = "encrypt" /\ ~arg.s.encryptionEnabled) =>
           ret.err = nil /\ ret.data = arg.payload
    /\ (ret.op = "decrypt" /\ ~storage.encryptionEnabled) =>
           ret.err = nil /\ ret.data = arg.input

\* an encrypting storage got a payload of MaxPayload bytes back
C12_Witness ==
    /\ DecryptOfEncrypted
    /\ storage.encryptionEnabled
    /\ arg.encrypted # arg.after.payload
    /\ ret.data.size = MaxPayload

\* the bytes are what encrypt of a storage with this key returned
ProducedUnderKey(data, key) == data.key = key /\ data.intact

\* C13: on an encrypting storage decrypt returns an error, and no plaintext,
\* for bytes that encrypt under the same key did not produce: fewer than 13
\* bytes are rejected as too short, bytes sealed under another key or
\* changed after sealing fail authentication; LoadDailySessions of such a
\* file returns an error and no sessions.
C13_DecryptRejects ==
    /\ (ret.op = "decrypt" /\ storage.encryptionEnabled) =>
           /\ arg.input.size < 13 => ret.err = "invalid encrypted data: too short"
           /\ ~ProducedUnderKey(arg.input, storage.encryptionKey) =>
                  ret.err # nil /\ ret.data.size = 0
    /\ (/\ ret.op = "LoadDailySessions"
        /\ storage.encryptionEnabled
        /\ FileAt(arg.dir, arg.date) # NoFile
        /\ ~ProducedUnderKey(FileAt(arg.dir, arg.date), storage.encryptionKey)) =>
           ret.err # nil /\ ret.sessions = NoSessions

\* a file sealed under another key was loaded by an encrypting storage
C13_Witness ==
    /\ ret.op = "LoadDailySessions"
    /\ storage.encryptionEnabled
    /\ FileAt(arg.dir, arg.date) # NoFile
    /\ FileAt(arg.dir, arg.date).key = ForeignStorage.encryptionKey
    /\ FileAt(arg.dir, arg.date).intact
    /\ ret.err = "failed to decrypt sessions"

\* the JSON document in the day file of a date, as the storage decodes it
StoredDocument(dir, date) == decrypt(storage, FileAt(dir, date)).data.content

StoredVersion(dir, date) == Field(StoredDocument(dir, date), "schema_version", 0)

\* a day file with a schema version older than the current one was loaded
LoadOfOlderSchema ==
    /\ ret.op = "LoadDailySessions"
    /\ ret.err = nil
    /\ FileAt(arg.dir, arg.date) # NoFile
    /\ StoredVersion(arg.dir, arg.date) < CurrentSchemaVersion

\* C14: a load of a day file of an older schema version returns every
\* session with an id; a session that had an id keeps it, everything else
\* is as stored, and migrating the result again changes nothing.
C14_MigrationAssignsIds ==
    LoadOfOlderSchema =>
        LET stored == UnmarshalDailySessions(StoredDocument(arg.dir, arg.date))
            loaded == ret.sessions
        IN  /\ loaded.Date = stored.Date
            /\ Len(loaded.Sessions) = Len(stored.Sessions)
            /\ \A k \in 1..Len(loaded.Sessions) :
                   /\ loaded.Sessions[k].ID # NoID
                   /\ stored.Sessions[k].ID # NoID => loaded.Sessions[k].ID = stored.Sessions[k].ID
                   /\ [loaded.Sessions[k] EXCEPT !.ID = stored.Sessions[k].ID] = stored.Sessions[k]
            /\ migrateSchema(StoredVersion(arg.dir, arg.date), loaded) = loaded

\* the file held a session without an id and one with an id
C14_Witness ==
    /\ LoadOfOlderSchema
    /\ LET stored == UnmarshalDailySessions(StoredDocument(arg.dir, arg.date))
       IN  /\ \E k \in 1..Len(stored.Sessions) : stored.Sessions[k].ID = NoID
           /\ \E k \in 1..Len(stored.Sessions) : stored.Sessions[k].ID # NoID

\* a merge that returned without error
MergeDone == ret.op = "MergeSessions" /\ ret.err = nil

\* the sessions of the day before and after the call
SessionsBefore == LoadDailySessions(storage, arg.dir, arg.date).sessions.Sessions

SessionsAfter == LoadDailySessions(storage, store, arg.date).sessions.Sessions

\* the original that starts earlier (the first index given when both start
\* at the same minute) and the one that starts later
EarlierIndex ==
    IF SessionsBefore[arg.session1Index].Start.StartTime
           > SessionsBefore[arg.session2Index].Start.StartTime
    THEN arg.session2Index ELSE arg.session1Index

LaterIndex == IF EarlierIndex = arg.session1Index THEN arg.session2Index ELSE arg.session1Index

Earlier == SessionsBefore[EarlierIndex]

Later == SessionsBefore[LaterIndex]

MergedSession == Last(SessionsAfter)

\* the earlier original has an end strictly before the start of the later one
GapBetween == Earlier.End # NoEntry /\ Earlier.End.StartTime < Later.Start.StartTime

IsGapPair(pair) ==
    /\ Len(pair) = 2
    /\ pair[1].Type = EntryTypeInterruption
    /\ pair[1].Tag = TagOther
    /\ pair[1].StartTime = Earlier.End.StartTime
    /\ pair[2].Type = EntryTypeReturn
    /\ pair[2].StartTime = Later.Start.StartTime

\* the entries of the merged session that come from neither original
AddedEntries ==
    SubSeq(MergedSession.Interruptions,
           Len(Earlier.Interruptions) + Len(Later.Interruptions) + 1,
           Len(MergedSession.Interruptions))

\* C15: a merge adds to the merged session exactly one pair, an
\* interruption tagged "other" at the end of the earlier-starting session and
\* a return at the start of the later-starting one, when the earlier session
\* has an end strictly before that start; otherwise it adds no entry.
C15_GapPair ==
    MergeDone =>
        /\ MergedSession.SubSessions = Earlier.SubSessions \o Later.SubSessions
        /\ Len(MergedSession.Interruptions)
               >= Len(Earlier.Interruptions) + Len(Later.Interruptions)
        /\ IF GapBetween THEN IsGapPair(AddedEntries) ELSE AddedEntries = <<>>

\* the later-starting session was given first and a gap pair was added
C15_Witness ==
    /\ MergeDone
    /\ EarlierIndex = arg.session2Index
    /\ GapBetween
    /\ IsGapPair(AddedEntries)

RECURSIVE Without(_, _, _)
\* the sequence without the positions in S, from position k on
Without(seq, S, k) ==
    IF k > Len(seq) THEN <<>>
    ELSE (IF k \in S THEN <<>> ELSE <<seq[k]>>) \o Without(seq, S, k + 1)

\* what a merge leaves of the day apart from the legacy interruption list of
\* the merged session
MergeFrame ==
    /\ Len(SessionsAfter) = Len(SessionsBefore) - 1
    /\ SubSeq(SessionsAfter, 1, Len(SessionsAfter) - 1)
           = Without(SessionsBefore, {arg.session1Index, arg.session2Index}, 1)
    /\ MergedSession.Start = Earlier.Start
    /\ MergedSession.End = Later.End
    /\ MergedSession.SubSessions = Earlier.SubSessions \o Later.SubSessions

ValidPositions == 1..Len(SessionsBefore)

\* a call that must be refused: an unknown range keyword, a delete outside
\* the sessions of the day, a merge outside them or of a session with itself
RefusedCall ==
    \/ /\ ret.op \in {"GetDateRange", "GetStats", "GetDetailedStats"}
       /\ arg.rangeType \notin RangeTypes
    \/ /\ ret.op = "SecureDelete"
       /\ arg.sessionIndex \notin ValidPositions
    \/ /\ ret.op = "MergeSessions"
       /\ \/ arg.session1Index \notin ValidPositions
          \/ arg.session2Index \notin ValidPositions
          \/ arg.session1Index = arg.session2Index

\* C17: a call with an unknown range keyword, a delete with a position
\* outside the sessions of the day and a merge with such a position or with
\* two equal positions return an error and leave every day file and the
\* backups as they were.
C17_ValidationNoMutation == RefusedCall => ret.err # nil /\ store = arg.dir

\* a storage with backups refused to merge a session of a stored day with
\* itself
C17_Witness ==
    /\ ret.op = "MergeSessions"
    /\ storage.backupEnabled
    /\ arg.session1Index \in ValidPositions
    /\ arg.session1Index = arg.session2Index
    /\ ret.err = "invalid session indices"

\* the day file of a date is there but cannot be decrypted or parsed
Undecodable(dir, date) ==
    FileAt(dir, date) # NoFile /\ LoadDailySessions(storage, dir, date).err # nil

\* what one date adds to the statistics of a range
DayContribution(dir, date) ==
    IF FileAt(dir, date) = NoFile THEN ZeroStats
    ELSE IF Undecodable(dir, date) THEN ZeroStats
    ELSE GetStats(LoadDailySessions(storage, dir, date).sessions.Sessions, now)

RECURSIVE SumOverDates(_, _)
SumOverDates(dir, dates) ==
    IF dates = {} THEN ZeroStats
    ELSE LET d == CHOOSE x \in dates : TRUE
         IN  AddStats(DayContribution(dir, d), SumOverDates(dir, dates \ {d}))

ResolvedDates(dir, rangeType) ==
    LET range == GetDateRange(dir, rangeType, today, arg.localDate)
    IN  range.startDate..range.endDate

\* C18: Storage.GetStats of a known range keyword succeeds and returns,
\* component by component, the sum of the per-day statistics over every date
\* from the resolved start to the resolved end, both included; a date
\* without a file adds nothing and a date whose file cannot be decoded is
\* skipped.
C18_RangeStats ==
    (ret.op = "GetStats" /\ arg.rangeType \in RangeTypes) =>
        /\ ret.err = nil
        /\ ret.stats = SumOverDates(arg.dir, ResolvedDates(arg.dir, arg.rangeType))

\* the range held an undecodable day, a day without a file would have been
\* possible, and the last day of the range added work and interruptions
C18_Witness ==
    /\ ret.op = "GetStats"
    /\ arg.rangeType = "all"
    /\ \E d \in ResolvedDates(arg.dir, "all") : Undecodable(arg.dir, d)
    /\ DayContribution(arg.dir, today).count > 0
    /\ ret.stats = DayContribution(arg.dir, today)

\* some day file of the directory cannot be decoded
SomeUndecodable(dir) == \E d \in Days : Undecodable(dir, d)

\* the dates that have a file that can be decoded
Decodable(dir) == {d \in Days : FileAt(dir, d) # NoFile /\ ~Undecodable(dir, d)}

\* C19: an undecodable day file does not keep a storage call from
\* delivering the other days: a load of another date succeeds, GetStats and
\* GetDetailedStats over a range that holds the day succeed with the data of
\* the other dates, and ExportData succeeds and writes every decodable day.
C19_CorruptionIsolated ==
    (ret.op \in {"LoadDailySessions", "GetStats", "GetDetailedStats", "ExportData"}
     /\ SomeUndecodable(arg.dir)) =>
        /\ (ret.op = "LoadDailySessions" /\ ~Undecodable(arg.dir, arg.date)) => ret.err = nil
        /\ (ret.op = "GetStats" /\ arg.rangeType \in RangeTypes) =>
               /\ ret.err = nil
               /\ ret.stats = SumOverDates(arg.dir, ResolvedDates(arg.dir, arg.rangeType))
        /\ (ret.op = "GetDetailedStats" /\ arg.rangeType \in RangeTypes) =>
               /\ ret.err = nil
               /\ \A d \in ResolvedDates(arg.dir, arg.rangeType) \cap Decodable(arg.dir) :
                      /\ d \in DOMAIN ret.stats.DailyWorkDurations
                      /\ ret.stats.DailyWorkDurations[d] = DayContribution(arg.dir, d).work
        /\ ret.op = "ExportData" =>
               /\ ret.err = nil
               /\ \A d \in Decodable(arg.dir) :
                      \E member \in ret.written.content.members : member.key = DateKey(d)

\* the import file is a JSON object of days
IsExportDocument(input) ==
    input # NoFile /\ input.key = NoKey /\ "members" \in DOMAIN input.content

ImportMembers == IF IsExportDocument(arg.input) THEN arg.input.content.members ELSE {}

\* the day file of the member's date holds the member's sessions under that date
StoredAsImported(member) ==
    LET loaded == LoadDailySessions(storage, store, member.key.date)
    IN  /\ loaded.err = nil
        /\ loaded.sessions.Date = member.key.date
        /\ loaded.sessions.Sessions = UnmarshalDailySessions(member.value).Sessions

\* C20: an import without overwrite leaves every day file that was there as
\* it was and stores, of the imported days, only those that had no file; an
\* import with overwrite of a well-formed file stores every day of it with
\* the imported sessions under the date of its key.
C20_ImportOverwrite ==
    ret.op = "ImportData" =>
        /\ ~arg.overwrite =>
               /\ \A d \in Days :
                      FileAt(arg.dir, d) # NoFile => FileAt(store, d) = FileAt(arg.dir, d)
               /\ \A d \in Days :
                      (FileAt(arg.dir, d) = NoFile /\ FileAt(store, d) # NoFile) =>
                          \E member \in ImportMembers :
                              /\ member.key = DateKey(d)
                              /\ StoredAsImported(member)
               /\ ret.err = nil =>
                      \A member \in ImportMembers :
                          FileAt(arg.dir, member.key.date) = NoFile => StoredAsImported(member)
        /\ (/\ arg.overwrite
            /\ IsExportDocument(arg.input)
            /\ \A member \in ImportMembers : member.key.valid) =>
               /\ ret.err = nil
               /\ \A member \in ImportMembers : StoredAsImported(member)

\* an import without overwrite of two days found a file for one of them and
\* stored the other
C20_Witness ==
    /\ ret.op = "ImportData"
    /\ ~arg.overwrite
    /\ ret.err = nil
    /\ \E member \in ImportMembers :
           FileAt(arg.dir, member.key.date) # NoFile /\ ~StoredAsImported(member)
    /\ \E member \in ImportMembers :
           FileAt(arg.dir, member.key.date) = NoFile /\ StoredAsImported(member)

(***************************************************************************)
(* GetDateRange on every date of a year.  The year has 365 days and starts *)
(* on a Monday; the data directory holds files for some of the first days  *)
(* of January, which are after today when today is one of them.            *)
(***************************************************************************)
YearDays == 1..365

RangeDirInputs ==
    {[files |-> files, backups |-> {}, backupDir |-> TRUE] :
        files \in [Days -> {NoFile, Written(PlainStorage, [Date |-> 1, Sessions |-> <<SessionA>>])}]}

InitRange ==
    /\ today \in YearDays
    /\ now = CallTime
    /\ storage = PlainStorage
    /\ store \in RangeDirInputs
    /\ running = FALSE
    /\ currentDay = [Date |-> 1, Sessions |-> <<>>]
    /\ activeSession = 0
    /\ page = "main"
    /\ pending = NoPending
    /\ tableRows = 1
    /\ arg = NoCall
    /\ ret = NoCall

NextRange ==
    \E rangeType \in RangeTypeInputs : \E localDate \in LocalDates :
        CallGetDateRange(rangeType, localDate)

SpecRange == InitRange /\ [][NextRange]_vars

\* the most recent Monday on or before a date
MondayOnOrBefore(date) == CHOOSE d \in (date - 6)..date : Weekday(d) = 1

\* the 1st of January, April, July or October that opens the three-month
\* block of a date
QuarterStart(date) ==
    FirstOfMonth(CHOOSE m \in {1, 4, 7, 10} : MonthOf(date) \in m..(m + 2))

ExpectedStart(dir, rangeType, date) ==
    CASE rangeType = "day" -> date
      [] rangeType = "week" -> MondayOnOrBefore(date)
      [] rangeType = "month" -> FirstOfMonth(MonthOf(date))
      [] rangeType = "quarter" -> QuarterStart(date)
      [] rangeType = "year" -> 1
      [] rangeType = "all" ->
            IF ListAvailableDays(dir) = {} THEN date ELSE Earliest(ListAvailableDays(dir))

\* C21: for every recognized keyword GetDateRange returns without error a
\* range that ends today and does not start after its end, and that starts
\* today for day, on the most recent Monday on or before today for week, on
\* the 1st of the month for month, on the first day of the three-month block
\* for quarter, on 1 January for year and on the earliest date with a stored
\* file for all (today when there is none).
C21_RangeStarts ==
    (ret.op = "GetDateRange" /\ arg.rangeType \in RangeTypes) =>
        /\ ret.err = nil
        /\ ret.endDate = today
        /\ ret.startDate <= ret.endDate
        /\ ret.startDate = ExpectedStart(arg.dir, arg.rangeType, today)

\* a save by a storage that takes backups went over an existing day file
SaveOverExisting ==
    /\ ret.op = "SaveDailySessions"
    /\ storage.backupEnabled
    /\ FileAt(arg.dir, arg.sessions.Date) # NoFile

\* C22: when a storage that takes backups saves a day whose file exists,
\* the save succeeds and the day file holds the new content; a backup file
\* of that date then holds the bytes the day file had before the save,
\* unless the backup could not be written, in which case the backups are as
\* they were.
C22_BackupBeforeWrite ==
    SaveOverExisting =>
        /\ ret.err = nil
        /\ FileAt(store, arg.sessions.Date) = Written(storage, arg.sessions)
        /\ arg.dir.backupDir =>
               \E b \in store.backups :
                   /\ b.date = arg.sessions.Date
                   /\ b.data = FileAt(arg.dir, arg.sessions.Date)
        /\ ~arg.dir.backupDir => store.backups = arg.dir.backups

\* the backup of a day file took the place of an older backup of the same
\* name and differs from what the save wrote
C22_Witness ==
    /\ SaveOverExisting
    /\ arg.dir.backupDir
    /\ arg.dir.backups # {}
    /\ \E b \in store.backups :
           /\ b.date = arg.sessions.Date
           /\ b.data = FileAt(arg.dir, arg.sessions.Date)
           /\ b.data # FileAt(store, arg.sessions.Date)
           /\ b \notin arg.dir.backups
    /\ Cardinality(store.backups) = 1

(***************************************************************************)
(* Properties of the commands that work on the selected row of the table.  *)
(***************************************************************************)
\* a step in which the confirmed delete changed the sessions of the day
DeleteConfirmed ==
    /\ page = "confirm"
    /\ pending.kind = "delete"
    /\ currentDay'.Sessions # currentDay.Sessions

\* C23: a confirmed delete removes the session that refreshTable shows in
\* the selected row (active sessions first, then newest start first) and
\* leaves every other session of the day in place; pending.index is the row
\* that was selected when the command was given.
C23_DeleteRemovesDisplayed ==
    [][DeleteConfirmed =>
          \E order \in SortedOrders(currentDay.Sessions) :
              currentDay'.Sessions = RemoveAt(currentDay.Sessions, order[pending.index])]_vars

(***************************************************************************)
(* The start of the UI on a drawn data directory and date, with every      *)
(* point at which the process may stop during the carry.                   *)
(***************************************************************************)
InitStartup ==
    /\ today \in Days
    /\ now = CallTime
    /\ storage \in StorageInputs
    /\ store \in DirInputs(storage)
    /\ running = FALSE
    /\ currentDay = [Date |-> 1, Sessions |-> <<>>]
    /\ activeSession = 0
    /\ page = "main"
    /\ pending = NoPending
    /\ tableRows = 1
    /\ arg = NoCall
    /\ ret = NoCall

NextStartup == \E written \in 0..2 : NewTimerUI(written)

SpecStartup == InitStartup /\ [][NextStartup]_vars

\* the sessions in the day file of a date of a data directory
SessionsIn(dir, date) ==
    LET loaded == LoadDailySessions(storage, dir, date)
    IN  IF loaded.err = nil THEN {loaded.sessions.Sessions[k] : k \in 1..Len(loaded.sessions.Sessions)}
        ELSE {}

\* the UI is started while today's file has no active session and the file
\* of the previous day has one
CarryOverCase ==
    /\ ~running
    /\ \A session \in SessionsIn(store, today) : ~IsActive(session)
    /\ \E session \in SessionsIn(store, today - 1) : IsActive(session)

\* the session NewTimerUI carries over: the first active one of the previous day
CarriedSession ==
    LET previousSessions == LoadDailySessions(storage, store, today - 1).sessions.Sessions
    IN  previousSessions[FirstActive(previousSessions)]

\* C24: when the UI is started in that case, the carried session is after
\* the start, however far it came, in today's file or in the file of the
\* previous day; and when NewTimerUI returned the UI the session is the
\* active session, is in today's file and is not in the previous day's file.
C24_CarryOver ==
    [][(NextStartup /\ CarryOverCase) =>
          /\ \/ CarriedSession \in SessionsIn(store', today)
             \/ CarriedSession \in SessionsIn(store', today - 1)
          /\ running' =>
                /\ activeSession' # 0
                /\ currentDay'.Sessions[activeSession'] = CarriedSession
                /\ CarriedSession \in SessionsIn(store', today)
                /\ CarriedSession \notin SessionsIn(store', today - 1)]_vars

\* the process stopped between the two saves of a carry: the session is in
\* today's file, next to a session of today, and still in the previous day's
C24_Witness ==
    /\ ~running
    /\ today > 1
    /\ \E session \in SessionsIn(store, today) :
           /\ IsActive(session)
           /\ session \in SessionsIn(store, today - 1)
           /\ SessionsIn(store, today) # {session}

(***************************************************************************)
(* Properties of the stats view.                                           *)
(***************************************************************************)
\* the data directory with the active session taken out of the file of its day
StoreWithoutActive ==
    IF activeSession = 0 THEN store
    ELSE SaveDailySessions(storage, store,
             [currentDay EXCEPT !.Sessions = RemoveAt(@, activeSession)])

\* every session of the range counted once: the saved sessions other than
\* the active one by the storage, the active one by calculateSessionStats
TotalsCountedOnce(rangeType, localDate) ==
    LET others == StorageGetStats(storage, StoreWithoutActive, rangeType, today, localDate, now).stats
    IN  IF activeSession = 0 THEN others
        ELSE AddStats(others, calculateSessionStats(currentDay.Sessions[activeSession], now))

\* C25: the totals showStats displays count every session of the range
\* once: what it reads from the storage does not hold the active session,
\* whose work time, interruption time and interruption count it adds.
C25_TotalsCountOnce ==
    [][\A rangeType \in RangeTypes : \A localDate \in LocalDates :
          ShowStats(rangeType, localDate) =>
              ret'.totals = TotalsCountedOnce(rangeType, localDate)]_vars

(***************************************************************************)
(* Properties of resume and merge with respect to the accounting.          *)
(***************************************************************************)
\* what DailySessions.GetStats attributes to one session
StatsOf(session, timeNow) == GetStats(<<session>>, timeNow)

\* C26: at the instant of the resume, GetStats attributes to the resumed
\* session, with or without sub-sessions, the work duration, interruption
\* duration and interruption count it attributed to it before; the resume
\* appends one open sub-session and clears the end of the session.
C26_ResumeKeepsAccounted ==
    ret.op = "resumeSession" =>
        LET before == arg[ret.index]
            after == ret.sessions[ret.index]
        IN  /\ StatsOf(after, now) = StatsOf(before, now)
            /\ after.End = NoEntry
            /\ Len(after.SubSessions) = Len(before.SubSessions) + 1
            /\ SubSeq(after.SubSessions, 1, Len(before.SubSessions)) = before.SubSessions
            /\ IsActive(Last(after.SubSessions))
            /\ \A k \in 1..Len(arg) : k # ret.index => ret.sessions[k] = arg[k]

\* a completed session as the commands leave it: every sub-session has its
\* end and every interruption its return
Completed(session) ==
    /\ session.Start # NoEntry /\ session.End # NoEntry
    /\ ~Interrupted(session.Interruptions)
    /\ \A k \in 1..Len(session.SubSessions) :
           /\ session.SubSessions[k].End # NoEntry
           /\ ~Interrupted(session.SubSessions[k].Interruptions)

\* two completed sessions, the earlier of which ends before the later starts
CompletedWithGap(session1, session2) ==
    /\ Completed(session1) /\ Completed(session2)
    /\ session1.End.StartTime < session2.Start.StartTime

\* C27: after MergeSessions of two completed sessions of a day, the earlier
\* ending before the later starts, whatever their shapes, GetStats returns for
\* the day the work duration it returned before the merge.
C27_MergeKeepsWork ==
    (/\ ret.op = "MergeSessions" /\ "before" \in DOMAIN ret
     /\ ret.err = nil
     /\ CompletedWithGap(ret.before[1], ret.before[2])) =>
        GetStats(ret.after, now).work = GetStats(ret.before, now).work

(***************************************************************************)
(* Properties of endSession.                                               *)
(***************************************************************************)
\* an interruption is open in the current sub-session of the active session
OpenInterruption ==
    /\ activeSession # 0
    /\ Len(currentDay.Sessions[activeSession].SubSessions) > 0
    /\ Interrupted(Last(currentDay.Sessions[activeSession].SubSessions).Interruptions)

\* every sub-session that has an end holds an even number of interruption
\* entries, and a session that has an end shares it with its last sub-session
EndedSubSessionsClosed ==
    \A session \in AllSessions :
        /\ \A k \in 1..Len(session.SubSessions) :
               session.SubSessions[k].End # NoEntry =>
                   Len(session.SubSessions[k].Interruptions) % 2 = 0
        /\ (session.End # NoEntry /\ Len(session.SubSessions) > 0) =>
               Last(session.SubSessions).End = session.End

\* C28: endSession is refused while an interruption is open in the current
\* sub-session and otherwise sets the end of the session and of its last
\* sub-session to the same entry, so every sub-session that has an end holds
\* an even number of interruption entries.
C28_EndNeedsReturn ==
    /\ []EndedSubSessionsClosed
    /\ [][EndSession =>
             IF OpenInterruption
             THEN UNCHANGED <<store, currentDay, activeSession>>
             ELSE activeSession # 0 =>
                      LET ended == currentDay'.Sessions[activeSession]
                      IN  /\ activeSession' = 0
                          /\ ended.End = NewTimeEntry(EntryTypeEnd, now)
                          /\ Last(ended.SubSessions).End = ended.End]_vars

\* a session was interrupted, returned to, ended, resumed and ended again
C28_Witness ==
    \E k \in 1..Len(currentDay.Sessions) :
        LET session == currentDay.Sessions[k]
        IN  /\ session.End # NoEntry
            /\ Len(session.SubSessions) = 2
            /\ Len(session.SubSessions[1].Interruptions) = 2
            /\ session.SubSessions[1].End # session.End

(***************************************************************************)
(* NewStorage: the key of an instance.  The configuration is the resolved  *)
(* options value; a passphrase is hashed with SHA-256, which the model     *)
(* takes as collision free, and without a passphrase the 32 key bytes come *)
(* from crypto/rand, so each instance gets any key of RandomKeys.  Nothing *)
(* writes a generated key to the configuration or to the data directory.   *)
(***************************************************************************)
NoPassphrase == ""

ConfigInputs ==
    [EnableEncryption : BOOLEAN, EncryptionKey : {NoPassphrase, "a", "b"},
     BackupEnabled : BOOLEAN]

Sum256(passphrase) == IF passphrase = "a" THEN 1 ELSE 2

RandomKeys == {3, 4}

NewStorageFromConfig(cfg, randomKey) ==
    [encryptionEnabled |-> cfg.EnableEncryption,
     encryptionKey |->
         IF cfg.EnableEncryption
         THEN IF cfg.EncryptionKey # NoPassphrase THEN Sum256(cfg.EncryptionKey)
              ELSE randomKey
         ELSE NoKey,
     backupEnabled |-> cfg.BackupEnabled]

\* arg keeps the configuration, the day that was saved and the instance
\* that saved it
InitKeys ==
    /\ today = MaxDay
    /\ now = CallTime
    /\ \E cfg \in ConfigInputs : \E randomKey \in RandomKeys :
           /\ storage = NewStorageFromConfig(cfg, randomKey)
           /\ arg = [op |-> "NewStorage", cfg |-> cfg, saved |-> NoSessions,
                     writer |-> storage, date |-> 0]
    /\ store = EmptyDir
    /\ running = FALSE
    /\ currentDay = [Date |-> 1, Sessions |-> <<>>]
    /\ activeSession = 0
    /\ page = "main"
    /\ pending = NoPending
    /\ tableRows = 1
    /\ ret = NoCall

SaveByInstance(sessions) ==
    /\ ret = NoCall
    /\ arg.saved = NoSessions
    /\ store' = SaveDailySessions(storage, store, sessions)
    /\ arg' = [arg EXCEPT !.saved = sessions, !.writer = storage]
    /\ UNCHANGED <<idleVars, ret>>

\* a later run of the program: NewStorage with the same configuration
LaterInstance(randomKey) ==
    /\ ret = NoCall
    /\ arg.saved # NoSessions
    /\ storage' = NewStorageFromConfig(arg.cfg, randomKey)
    /\ UNCHANGED <<store, today, now, uiVars, arg, ret>>

LoadByInstance(date) ==
    /\ ret = NoCall
    /\ arg.saved # NoSessions
    /\ arg' = [arg EXCEPT !.date = date]
    /\ LET loaded == LoadDailySessions(storage, store, date)
       IN  ret' = [op |-> "LoadDailySessions", err |-> loaded.err, sessions |-> loaded.sessions]
    /\ UNCHANGED <<store, idleVars>>

NextKeys ==
    \/ \E sessions \in DailySessionsInputs : SaveByInstance(sessions)
    \/ \E randomKey \in RandomKeys : LaterInstance(randomKey)
    \/ \E date \in Days : LoadByInstance(date)

SpecKeys == InitKeys /\ [][NextKeys]_vars

\* C29: with encryption enabled, with or without a passphrase, every
\* instance created from the configuration has the key of the instance that
\* saved the day, and its load of that day succeeds and returns what was
\* saved.
C29_SameKeyEveryInstance ==
    (arg.cfg.EnableEncryption /\ arg.saved # NoSessions) =>
        /\ storage.encryptionKey = arg.writer.encryptionKey
        /\ (ret.op = "LoadDailySessions" /\ arg.date = arg.saved.Date) =>
               /\ ret.err = nil
               /\ ret.sessions = arg.saved

\* C30: when ImportData returns the error of a malformed date key, the data
\* directory is as it was before the call: no day file was created or
\* overwritten, also when the import file holds well-formed days.
C30_RejectedImportChangesNothing ==
    (ret.op = "ImportData" /\ ret.err = "invalid date format in import") =>
        store.files = arg.dir.files

====
